---------------------------- MODULE Spec2Model ----------------------------
(***************************************************************************)
(* A model of the ReportPortal analytics engine (src/utils/rp_analytics.py)*)
(* of hchenxa/agent-sample: class ReportPortalAnalytics, its constructor   *)
(* and its report operations.                                              *)
(*                                                                         *)
(* Conventions.                                                            *)
(*  - A Python dict is a TLA+ function over its keys; {} is EmptyDict.     *)
(*  - A Python float is an exact rational <<n, d>> (d > 0, lowest terms);  *)
(*    a square root is taken to 1/SqrtScale, rounded down.                 *)
(*  - A Python str that the code searches is a tuple of one-character      *)
(*    strings; a str that is only compared is a TLA+ string.               *)
(*  - Time is counted in days: a startTime and "now" are days since the    *)
(*    epoch, so timedelta(days=n) is n.                                    *)
(***************************************************************************)
EXTENDS Integers, Sequences, FiniteSets, TLC

VARIABLES
    launches_data,     \* self.launches_data: the list given to __init__
    test_items_data,   \* self.test_items_data: ordered launch_id -> items
    start_time_col,    \* whether self.df_launches has a 'start_time' column
    clock,             \* datetime.now(), in days
    returned,          \* history: operation -> set of <<arguments, result>>
    args,              \* the arguments of a helper that is called on its own
    peer,              \* a second instance built from the same inputs:
                       \* [start_time_col, returned]
    session_state,     \* st.session_state: [chat_sessions, active_chat_id,
                       \* renaming_chat_id]
    uuids,             \* the ids uuid.uuid4() has handed out so far
    called             \* the last chat function called, with the
                       \* st.session_state it was called in

engine_vars == <<launches_data, test_items_data, start_time_col, clock, returned, args, peer>>

chat_vars == <<session_state, uuids, called>>

vars == <<launches_data, test_items_data, start_time_col, clock, returned, args, peer,
          session_state, uuids, called>>

----------------------------------------------------------------------------
(* Generic helpers *)

EmptyDict == [k \in {} |-> k]

Range(s) == {s[i] : i \in DOMAIN s}

Abs(x) == IF x < 0 THEN -x ELSE x

RECURSIVE GCD(_, _)
GCD(a, b) == IF b = 0 THEN a ELSE GCD(b, a % b)

RECURSIVE SumSeq(_)
SumSeq(s) == IF s = <<>> THEN 0 ELSE Head(s) + SumSeq(Tail(s))

(* Exact rationals standing for Python floats *)

RNorm(n, d) ==
    LET g == GCD(Abs(n), Abs(d))
        s == IF d < 0 THEN -1 ELSE 1
    IN  IF n = 0 THEN <<0, 1>> ELSE <<s * (n \div g), s * (d \div g)>>

RInt(n) == <<n, 1>>

RZero == <<0, 1>>

RAdd(a, b) ==
    LET g == GCD(a[2], b[2])
        l == (a[2] \div g) * b[2]
    IN  RNorm(a[1] * (l \div a[2]) + b[1] * (l \div b[2]), l)

RNeg(a) == <<-a[1], a[2]>>

RSub(a, b) == RAdd(a, RNeg(b))

RMul(a, b) ==
    LET x == RNorm(a[1], b[2])
        y == RNorm(b[1], a[2])
    IN  RNorm(x[1] * y[1], x[2] * y[2])

\* a / b, b # 0
RDiv(a, b) == RMul(a, IF b[1] < 0 THEN <<-b[2], -b[1]>> ELSE <<b[2], b[1]>>)

RLt(a, b) == a[1] * b[2] < b[1] * a[2]

RLe(a, b) == a[1] * b[2] <= b[1] * a[2]

RECURSIVE RSumSeq(_)
RSumSeq(s) == IF s = <<>> THEN RZero ELSE RAdd(Head(s), RSumSeq(Tail(s)))

\* statistics.mean / Series.mean of a non-empty sequence of rationals
RMean(s) == RDiv(RSumSeq(s), RInt(Len(s)))

\* the integer square root of x, rounded down, by bisection of lo..hi
RECURSIVE ISqrtIn(_, _, _)
ISqrtIn(x, lo, hi) ==
    IF lo = hi THEN lo
    ELSE LET mid == (lo + hi + 1) \div 2
         IN  IF mid * mid <= x THEN ISqrtIn(x, mid, hi) ELSE ISqrtIn(x, lo, mid - 1)

ISqrt(x) == ISqrtIn(x, 0, IF x < 40000 THEN x ELSE 40000)

SqrtScale == 10

\* math.sqrt of a rational a >= 0, to 1/SqrtScale, rounded down
RSqrt(a) == RNorm(ISqrt((a[1] * SqrtScale * SqrtScale) \div a[2]), SqrtScale)

\* statistics.stdev of a sequence of at least two rationals
RStdev(s) ==
    LET m  == RMean(s)
        sq == [i \in DOMAIN s |-> RMul(RSub(s[i], m), RSub(s[i], m))]
    IN  RSqrt(RDiv(RSumSeq(sq), RInt(Len(s) - 1)))

----------------------------------------------------------------------------
(* The launch table: self.df_launches = pd.DataFrame(launches_data).        *)
(* A launch record is [startTime, total, passed, failed, skipped];         *)
(* startTime is a day number >= 0, Null (JSON null) or Absent (no such     *)
(* key); the three markers are negative so that the field has one type.    *)

Null == -1

\* main.py lines 38-43: no chat session, no active chat, no chat being renamed
NoChat ==
    /\ session_state = [chat_sessions |-> <<>>, active_chat_id |-> Null,
                        renaming_chat_id |-> Null]
    /\ uuids = {}
    /\ called = [op |-> "none"]

Absent == -2

NaT == -3

\* df_launches.empty: no rows
DfEmpty(df) == Len(df) = 0

\* what an operation returns when it raises instead of returning
KeyError == [raised |-> "KeyError"]

TypeError == [raised |-> "TypeError"]

\* the table has no column f: no record of the list carries the key.  (A key
\* that only some records carry gives a column with NaN, which is not modelled:
\* a count field is carried by every record of a list or by none.)
MissingColumn(df, f) == \A i \in DOMAIN df : df[i][f] = Absent

\* df[f] raises KeyError for one of the columns fields
AnyMissingColumn(df, fields) == \E f \in fields : MissingColumn(df, f)

\* 'startTime' in self.df_launches.columns: some record carries the key
HasStartTimeKey(df) == \E i \in DOMAIN df : df[i].startTime # Absent

\* pd.to_datetime(value, unit='ms'): a missing value becomes NaT
ToDatetime(v) == IF v \in {Null, Absent} THEN NaT ELSE v

Column(df, f) == [i \in DOMAIN df |-> df[i][f]]

\* one launch's pass rate, for a launch with passed + failed > 0
LaunchPassRate(l) ==
    RMul(RDiv(RInt(l.passed), RInt(l.passed + l.failed)), RInt(100))

Decisive(l) == l.passed + l.failed > 0

PassRates_AllLaunches(df) ==
    [i \in DOMAIN df |-> IF df[i].passed + df[i].failed > 0
                         THEN RMul(RDiv(RInt(df[i].passed),
                                        RInt(df[i].passed + df[i].failed)), RInt(100))
                         ELSE RZero]

\* the pass_rates list both _calculate_avg_pass_rate and _calculate_pass_rate_std build
PassRates(df) ==
    LET q == SelectSeq(df, Decisive)
    IN  [i \in DOMAIN q |-> LaunchPassRate(q[i])]

_calculate_avg_pass_rate(df) ==
    IF DfEmpty(df) THEN RZero
    ELSE IF PassRates(df) # <<>> THEN RMean(PassRates(df)) ELSE RZero

_calculate_pass_rate_std(df) ==
    IF DfEmpty(df) THEN RZero
    ELSE IF Len(PassRates(df)) > 1 THEN RStdev(PassRates(df)) ELSE RZero

\* a before b in sort_values('start_time'): ascending, NaT last
TimeBefore(a, b) == a # NaT /\ (b = NaT \/ a < b)

\* insert row l into the sorted sequence s behind every row not after it
RECURSIVE InsertByTime(_, _)
InsertByTime(s, l) ==
    IF s = <<>> THEN <<l>>
    ELSE IF TimeBefore(ToDatetime(l.startTime), ToDatetime(Head(s).startTime))
         THEN <<l>> \o s
         ELSE <<Head(s)>> \o InsertByTime(Tail(s), l)

\* self.df_launches.sort_values('start_time'); rows with equal keys keep their order
RECURSIVE SortByStartTime(_)
SortByStartTime(df) ==
    IF df = <<>> THEN <<>>
    ELSE InsertByTime(SortByStartTime(SubSeq(df, 1, Len(df) - 1)), df[Len(df)])

_calculate_test_trend_SupplyOrder(df, has_col) ==
    IF DfEmpty(df) \/ ~has_col THEN RZero
    ELSE IF Len(df) < 2 THEN RZero
    ELSE LET y      == Column(df, "total")
             n      == Len(y)
             sum_x  == SumSeq([i \in 1..n |-> i - 1])
             sum_y  == SumSeq(y)
             sum_xy == SumSeq([i \in 1..n |-> (i - 1) * y[i]])
             sum_x2 == SumSeq([i \in 1..n |-> (i - 1) * (i - 1)])
             den    == n * sum_x2 - sum_x * sum_x
         IN  IF den # 0 THEN RNorm(n * sum_xy - sum_x * sum_y, den) ELSE RZero

\* has_col: 'start_time' in self.df_launches.columns
_calculate_test_trend(df, has_col) ==
    IF DfEmpty(df) \/ ~has_col THEN RZero
    ELSE IF Len(df) < 2 THEN RZero
    ELSE LET y      == Column(SortByStartTime(df), "total")
             n      == Len(y)
             sum_x  == SumSeq([i \in 1..n |-> i - 1])
             sum_y  == SumSeq(y)
             sum_xy == SumSeq([i \in 1..n |-> (i - 1) * y[i]])
             sum_x2 == SumSeq([i \in 1..n |-> (i - 1) * (i - 1)])
             den    == n * sum_x2 - sum_x * sum_x
         IN  IF den # 0 THEN RNorm(n * sum_xy - sum_x * sum_y, den) ELSE RZero

\* insert integer v into the ascending sequence s
RECURSIVE InsertInt(_, _)
InsertInt(s, v) ==
    IF s = <<>> THEN <<v>>
    ELSE IF v < Head(s) THEN <<v>> \o s ELSE <<Head(s)>> \o InsertInt(Tail(s), v)

RECURSIVE SortInts(_)
SortInts(s) == IF s = <<>> THEN <<>> ELSE InsertInt(SortInts(Tail(s)), Head(s))

\* Series.median of a non-empty integer column
Median(col) ==
    LET s == SortInts(col)
        n == Len(s)
    IN  IF n % 2 = 1 THEN RInt(s[(n + 1) \div 2])
        ELSE RNorm(s[n \div 2] + s[n \div 2 + 1], 2)

\* line 35: self.df_launches['total'].sum()
TotalTestsExecuted_FromOutcomes(df) ==
    SumSeq(Column(df, "passed")) + SumSeq(Column(df, "failed"))
    + SumSeq(Column(df, "skipped"))

TotalTestsExecuted(df) == SumSeq(Column(df, "total"))

OverallPassRate_Else100(passed, failed) ==
    IF passed + failed > 0
    THEN RMul(RDiv(RInt(passed), RInt(passed + failed)), RInt(100))
    ELSE RInt(100)

\* the pooled pass rate of lines 41-43
OverallPassRate(passed, failed) ==
    IF passed + failed > 0
    THEN RMul(RDiv(RInt(passed), RInt(passed + failed)), RInt(100))
    ELSE RZero

\* the dict calculate_test_execution_metrics returns; has_col is the state of
\* the 'start_time' column after line 31
calculate_test_execution_metrics(df, has_col) ==
    IF DfEmpty(df) THEN EmptyDict
    ELSE IF AnyMissingColumn(df, {"total", "passed", "failed", "skipped"}) THEN KeyError
    ELSE [ total_launches          |-> Len(df),
           total_tests_executed    |-> TotalTestsExecuted(df),
           avg_tests_per_launch    |-> RNorm(SumSeq(Column(df, "total")), Len(df)),
           median_tests_per_launch |-> Median(Column(df, "total")),
           total_passed            |-> SumSeq(Column(df, "passed")),
           total_failed            |-> SumSeq(Column(df, "failed")),
           total_skipped           |-> SumSeq(Column(df, "skipped")),
           overall_pass_rate       |-> OverallPassRate(SumSeq(Column(df, "passed")),
                                                       SumSeq(Column(df, "failed"))),
           avg_pass_rate           |-> _calculate_avg_pass_rate(df),
           pass_rate_std           |-> _calculate_pass_rate_std(df),
           test_execution_trend    |-> _calculate_test_trend(df, has_col) ]

\* lines 30-31: the column calculate_test_execution_metrics adds to df_launches
StartTimeColAfterMetrics(df, has_col) ==
    IF DfEmpty(df) THEN has_col ELSE has_col \/ HasStartTimeKey(df)

----------------------------------------------------------------------------
(* Historical comparison *)

\* one row's pass rate in _calculate_metrics_for_df: 0 without decisive outcome
RowPassRate(l) == IF Decisive(l) THEN LaunchPassRate(l) ELSE RZero

_calculate_metrics_for_df_DecisiveOnly(df) ==
    IF DfEmpty(df) THEN EmptyDict
    ELSE IF AnyMissingColumn(df, {"passed", "failed", "total"}) THEN KeyError
    ELSE [ avg_pass_rate        |-> _calculate_avg_pass_rate(df),
           avg_tests_per_launch |-> RNorm(SumSeq(Column(df, "total")), Len(df)),
           total_tests          |-> RInt(SumSeq(Column(df, "total"))) ]

_calculate_metrics_for_df(df) ==
    IF DfEmpty(df) THEN EmptyDict
    ELSE IF AnyMissingColumn(df, {"passed", "failed", "total"}) THEN KeyError
    ELSE [ avg_pass_rate        |-> RMean([i \in DOMAIN df |-> RowPassRate(df[i])]),
           avg_tests_per_launch |-> RNorm(SumSeq(Column(df, "total")), Len(df)),
           total_tests          |-> RInt(SumSeq(Column(df, "total"))) ]

RecentData_After(df, cutoff) ==
    LET In(l) == ToDatetime(l.startTime) # NaT /\ ToDatetime(l.startTime) > cutoff
    IN  SelectSeq(df, In)

\* rows with start_time >= cutoff_date (a NaT compares False)
RecentData(df, cutoff) ==
    LET In(l) == ToDatetime(l.startTime) # NaT /\ ToDatetime(l.startTime) >= cutoff
    IN  SelectSeq(df, In)

\* rows with start_time < cutoff_date
HistoricalData(df, cutoff) ==
    LET In(l) == ToDatetime(l.startTime) # NaT /\ ToDatetime(l.startTime) < cutoff
    IN  SelectSeq(df, In)

ComparisonMetrics == <<"avg_pass_rate", "avg_tests_per_launch", "total_tests">>

\* the keys f'{metric}_change', f'{metric}_recent', f'{metric}_historical'
ComparisonKey(metric, suffix) == metric \o "_" \o suffix

\* the comparison dict of lines 200-211
Comparison(recent, historical) ==
    LET emitted == {m \in Range(ComparisonMetrics) : RLt(RZero, historical[m])}
        pairs == emitted \X {"change", "recent", "historical"}
        keys == {ComparisonKey(k[1], k[2]) : k \in pairs}
    IN  [key \in keys |->
            LET k == CHOOSE k \in pairs : ComparisonKey(k[1], k[2]) = key
            IN  CASE k[2] = "change" ->
                        RMul(RDiv(RSub(recent[k[1]], historical[k[1]]), historical[k[1]]),
                             RInt(100))
                  [] k[2] = "recent" -> recent[k[1]]
                  [] OTHER -> historical[k[1]]]

generate_historical_comparison(df, has_col, now, days_back) ==
    IF DfEmpty(df) \/ ~has_col THEN EmptyDict
    ELSE LET cutoff_date == now - days_back
             recent_data == RecentData(df, cutoff_date)
             historical_data == HistoricalData(df, cutoff_date)
         IN  IF DfEmpty(recent_data) \/ DfEmpty(historical_data) THEN EmptyDict
             ELSE IF _calculate_metrics_for_df(recent_data) = KeyError THEN KeyError
             ELSE IF _calculate_metrics_for_df(historical_data) = KeyError THEN KeyError
             ELSE Comparison(_calculate_metrics_for_df(recent_data),
                             _calculate_metrics_for_df(historical_data))

----------------------------------------------------------------------------
(* Test items: self.test_items_data is an ordered mapping, here a sequence  *)
(* of [launch_id, items]; items is a sequence of item records              *)
(* [name, status, description, duration] or NotAList.  A name or status    *)
(* that is missing or null reads as "" (item.get(key, '') is falsy).       *)

\* a value that is not a list (an error string of the client), told apart from
\* every list of item records
NotAList == <<[not_a_list |-> TRUE]>>

\* isinstance(items, list)
IsList(items) == items # NotAList

RECURSIVE AllItems_LaunchesReversed(_)
AllItems_LaunchesReversed(data) ==
    IF data = <<>> THEN <<>>
    ELSE AllItems_LaunchesReversed(Tail(data))
         \o (IF IsList(Head(data).items) THEN Head(data).items ELSE <<>>)

\* every item of every launch, in the order the loops of lines 67-69 visit them
RECURSIVE AllItems(_)
AllItems(data) ==
    IF data = <<>> THEN <<>>
    ELSE (IF IsList(Head(data).items) THEN Head(data).items ELSE <<>>)
         \o AllItems(Tail(data))

Collected_DecisiveOnly(item) == item.name # "" /\ item.status \in {"PASSED", "FAILED"}

\* line 72: the items collected into test_results
Collected(item) == item.name # "" /\ item.status # ""

\* the keys of test_results in insertion order: names by first occurrence
RECURSIVE FirstSeenNames(_, _)
FirstSeenNames(items, seen) ==
    IF items = <<>> THEN <<>>
    ELSE IF Head(items).name \in seen THEN FirstSeenNames(Tail(items), seen)
         ELSE <<Head(items).name>>
              \o FirstSeenNames(Tail(items), seen \cup {Head(items).name})

\* test_results[test_name]: the statuses appended for that name, in order
StatusesOf(items, test_name) ==
    LET Mine(item) == item.name = test_name
        mine == SelectSeq(items, Mine)
    IN  [i \in DOMAIN mine |-> mine[i].status]

\* Counter(statuses): status -> number of occurrences
Counter(statuses) ==
    [st \in Range(statuses) |-> Cardinality({i \in DOMAIN statuses : statuses[i] = st})]

\* status_counts.get(st, 0)
CountOf(status_counts, st) ==
    IF st \in DOMAIN status_counts THEN status_counts[st] ELSE 0

\* lines 90-91
Switches(statuses) ==
    Cardinality({i \in 2..Len(statuses) : statuses[i] # statuses[i - 1]})

FlakyScore_PerRun(statuses) ==
    IF Len(statuses) > 1
    THEN RMul(RNorm(Cardinality({i \in 2..Len(statuses) : statuses[i] # statuses[i - 1]}),
                    Len(statuses)), RInt(100))
    ELSE RZero

\* line 92
FlakyScore(statuses) ==
    IF Len(statuses) > 1
    THEN RMul(RNorm(Switches(statuses), Len(statuses) - 1), RInt(100))
    ELSE RZero

IsFlaky_AnyVariety(statuses, min_occurrences) ==
    /\ Len(statuses) >= min_occurrences
    /\ Cardinality(Range(statuses)) > 1

\* lines 77-88: the test is appended to flaky_tests
IsFlaky(statuses, min_occurrences) ==
    /\ Len(statuses) >= min_occurrences
    /\ Cardinality(DOMAIN Counter(statuses)) > 1
    /\ CountOf(Counter(statuses), "PASSED") > 0
    /\ CountOf(Counter(statuses), "FAILED") > 0

\* lines 94-102
FlakyRecord(test_name, statuses) ==
    [ test_name           |-> test_name,
      total_runs          |-> Len(statuses),
      passed              |-> CountOf(Counter(statuses), "PASSED"),
      failed              |-> CountOf(Counter(statuses), "FAILED"),
      skipped             |-> CountOf(Counter(statuses), "SKIPPED"),
      flaky_score         |-> FlakyScore(statuses),
      status_distribution |-> Counter(statuses) ]

\* the flaky_tests list before sorting
RECURSIVE FlakyList(_, _, _)
FlakyList(names, items, min_occurrences) ==
    IF names = <<>> THEN <<>>
    ELSE (IF IsFlaky(StatusesOf(items, Head(names)), min_occurrences)
          THEN <<FlakyRecord(Head(names), StatusesOf(items, Head(names)))>>
          ELSE <<>>)
         \o FlakyList(Tail(names), items, min_occurrences)

InsertByScore_BeforeEqual(s, r) ==
    LET before == {i \in DOMAIN s : RLt(r.flaky_score, s[i].flaky_score)}
        k == IF before = {} THEN 0
             ELSE CHOOSE i \in before : \A j \in before : j <= i
    IN  SubSeq(s, 1, k) \o <<r>> \o SubSeq(s, k + 1, Len(s))

\* where r goes in the list s sorted by descending score: r precedes x
\* when r's score is higher, and follows every x of the same score
InsertByScore(s, r) ==
    LET before == {i \in DOMAIN s : RLe(r.flaky_score, s[i].flaky_score)}
        k == IF before = {} THEN 0
             ELSE CHOOSE i \in before : \A j \in before : j <= i
    IN  SubSeq(s, 1, k) \o <<r>> \o SubSeq(s, k + 1, Len(s))

\* sorted(flaky_tests, key=flaky_score, reverse=True): a stable sort
RECURSIVE SortByScoreDesc(_)
SortByScoreDesc(s) ==
    IF s = <<>> THEN <<>>
    ELSE InsertByScore(SortByScoreDesc(SubSeq(s, 1, Len(s) - 1)), s[Len(s)])

detect_flaky_tests(data, min_occurrences) ==
    IF data = <<>> THEN <<>>
    ELSE LET items == SelectSeq(AllItems(data), Collected)
         IN  SortByScoreDesc(FlakyList(FirstSeenNames(items, {}), items, min_occurrences))

----------------------------------------------------------------------------
(* Text: a str is a tuple of one-character strings *)

UpperCase == <<"A", "B", "C", "D", "E", "F", "G", "H", "I", "J", "K", "L", "M", "N", "O", "P", "Q", "R", "S", "T", "U", "V", "W", "X", "Y", "Z">>

LowerCase == <<"a", "b", "c", "d", "e", "f", "g", "h", "i", "j", "k", "l", "m", "n", "o", "p", "q", "r", "s", "t", "u", "v", "w", "x", "y", "z">>

Digits == {"0", "1", "2", "3", "4", "5", "6", "7", "8", "9"}

\* upper-case letter -> its lower-case letter
LowerOf ==
    [c \in Range(UpperCase) |-> LowerCase[CHOOSE i \in DOMAIN UpperCase : UpperCase[i] = c]]

WordChars == Range(LowerCase) \cup Digits \cup {"_"}

LowerChar(c) == IF c \in DOMAIN LowerOf THEN LowerOf[c] ELSE c

\* str.lower(), and what re.IGNORECASE compares
Lower(text) == [i \in DOMAIN text |-> LowerChar(text[i])]

\* text[i:] starts with pat
StartsAt(text, i, pat) ==
    /\ i + Len(pat) - 1 <= Len(text)
    /\ \A k \in DOMAIN pat : text[i + k - 1] = pat[k]

\* pat in text
Contains(text, pat) == \E i \in 1..(Len(text) + 1) : StartsAt(text, i, pat)

\* any(keyword in msg.lower() for keyword in keywords)
ContainsAny(msg, keywords) ==
    LET lower == Lower(msg)
    IN  \E k \in DOMAIN keywords : Contains(lower, keywords[k])

\* \w
WordChar(c) == LowerChar(c) \in WordChars

----------------------------------------------------------------------------
(* Failure pattern analysis *)

\* the regular expressions of lines 308-318, each as [name, first, rest, kind]:
\* "literal" is the text first; "gap" is first.*rest; "digits" is first\d{3}
Patterns ==
    << [name |-> "TimeoutException", kind |-> "literal",
        first |-> <<"t", "i", "m", "e", "o", "u", "t", "e", "x", "c", "e", "p", "t", "i", "o", "n">>, rest |-> <<>>],
       [name |-> "ConnectionError", kind |-> "literal",
        first |-> <<"c", "o", "n", "n", "e", "c", "t", "i", "o", "n", "e", "r", "r", "o", "r">>, rest |-> <<>>],
       [name |-> "AssertionError", kind |-> "literal",
        first |-> <<"a", "s", "s", "e", "r", "t", "i", "o", "n", "e", "r", "r", "o", "r">>, rest |-> <<>>],
       [name |-> "NullPointerException", kind |-> "literal",
        first |-> <<"n", "u", "l", "l", "p", "o", "i", "n", "t", "e", "r", "e", "x", "c", "e", "p", "t", "i", "o", "n">>, rest |-> <<>>],
       [name |-> "FileNotFoundException", kind |-> "literal",
        first |-> <<"f", "i", "l", "e", "n", "o", "t", "f", "o", "u", "n", "d", "e", "x", "c", "e", "p", "t", "i", "o", "n">>, rest |-> <<>>],
       [name |-> "HTTP \\d{3}", kind |-> "digits",
        first |-> <<"h", "t", "t", "p", " ">>, rest |-> <<>>],
       [name |-> "Database.*Error", kind |-> "gap",
        first |-> <<"d", "a", "t", "a", "b", "a", "s", "e">>, rest |-> <<"e", "r", "r", "o", "r">>],
       [name |-> "Authentication.*Failed", kind |-> "gap",
        first |-> <<"a", "u", "t", "h", "e", "n", "t", "i", "c", "a", "t", "i", "o", "n">>, rest |-> <<"f", "a", "i", "l", "e", "d">>],
       [name |-> "Permission.*Denied", kind |-> "gap",
        first |-> <<"p", "e", "r", "m", "i", "s", "s", "i", "o", "n">>, rest |-> <<"d", "e", "n", "i", "e", "d">>] >>

\* re.search(pattern, description, re.IGNORECASE) finds a match; t is the
\* description in lower case
PatternMatches(p, t) ==
        CASE p.kind = "literal" -> Contains(t, p.first)
          [] p.kind = "digits" ->
                \E i \in DOMAIN t :
                    /\ StartsAt(t, i, p.first)
                    /\ i + Len(p.first) + 2 <= Len(t)
                    /\ \A k \in 0..2 : t[i + Len(p.first) + k] \in Digits
          [] OTHER ->
                \E i \in DOMAIN t : \E j \in DOMAIN t :
                    /\ StartsAt(t, i, p.first)
                    /\ j >= i + Len(p.first)
                    /\ StartsAt(t, j, p.rest)
                    /\ \A k \in (i + Len(p.first))..(j - 1) : t[k] # "\n"

\* the alternatives of the fallback expression of line 325
ErrorSuffixes ==
    <<<<"e", "r", "r", "o", "r">>,
      <<"e", "x", "c", "e", "p", "t", "i", "o", "n">>,
      <<"f", "a", "i", "l", "e", "d">>,
      <<"t", "i", "m", "e", "o", "u", "t">>>>

\* the last character of the maximal run of word characters starting at i
RECURSIVE WordEnd(_, _)
WordEnd(text, i) ==
    IF i < Len(text) /\ WordChar(text[i + 1]) THEN WordEnd(text, i + 1) ELSE i

EndsWith(text, suffix) ==
    /\ Len(suffix) <= Len(text)
    /\ StartsAt(text, Len(text) - Len(suffix) + 1, suffix)

\* the start positions of the matches of \b\w*(?:Error|Exception|Failed|Timeout)\b:
\* a match begins at the start of a word and ends at its end
ErrorWordStarts(text) ==
    {i \in DOMAIN text :
        /\ WordChar(text[i])
        /\ (i = 1 \/ ~WordChar(text[i - 1]))
        /\ \E k \in DOMAIN ErrorSuffixes :
              EndsWith(Lower(SubSeq(text, i, WordEnd(text, i))), ErrorSuffixes[k])}

\* the three kinds of return value of _extract_error_pattern that are a str
PatternSig(name) == [kind |-> "pattern", name |-> name, text |-> <<>>]

TokenSig(text) == [kind |-> "token", name |-> "", text |-> text]

UnknownErrorSig == [kind |-> "literal", name |-> "Unknown Error", text |-> <<>>]

\* the return value None
NoneSig == [kind |-> "None", name |-> "", text |-> <<>>]

_extract_error_pattern_LastMatch(description) ==
    IF description = <<>> THEN NoneSig
    ELSE LET t == Lower(description)
             matching == {i \in DOMAIN Patterns : PatternMatches(Patterns[i], t)}
             starts == ErrorWordStarts(description)
         IN  IF matching # {}
             THEN PatternSig(Patterns[CHOOSE i \in matching : \A j \in matching : j <= i].name)
             ELSE IF starts # {}
             THEN LET i == CHOOSE i \in starts : \A j \in starts : i <= j
                  IN  TokenSig(SubSeq(description, i, WordEnd(description, i)))
             ELSE UnknownErrorSig

\* lines 304-329
_extract_error_pattern(description) ==
    IF description = <<>> THEN NoneSig
    ELSE LET t == Lower(description)
             matching == {i \in DOMAIN Patterns : PatternMatches(Patterns[i], t)}
             starts == ErrorWordStarts(description)
         IN  IF matching # {}
             THEN PatternSig(Patterns[CHOOSE i \in matching : \A j \in matching : i <= j].name)
             ELSE IF starts # {}
             THEN LET i == CHOOSE i \in starts : \A j \in starts : i <= j
                  IN  TokenSig(SubSeq(description, i, WordEnd(description, i)))
             ELSE UnknownErrorSig

\* the keyword lists of lines 343-351, in the order the elif chain tests them
CategoryKeywords ==
    << [category |-> "Infrastructure", keywords |->
          <<<<"c", "o", "n", "n", "e", "c", "t", "i", "o", "n">>,
            <<"n", "e", "t", "w", "o", "r", "k">>,
            <<"s", "e", "r", "v", "e", "r">>,
            <<"h", "t", "t", "p">>>>],
       [category |-> "Timeout", keywords |->
          <<<<"t", "i", "m", "e", "o", "u", "t">>,
            <<"t", "i", "m", "e", " ", "o", "u", "t">>,
            <<"t", "i", "m", "e", "d", " ", "o", "u", "t">>>>],
       [category |-> "Assertion", keywords |->
          <<<<"a", "s", "s", "e", "r", "t">>,
            <<"e", "x", "p", "e", "c", "t", "e", "d">>,
            <<"a", "c", "t", "u", "a", "l">>>>],
       [category |-> "Configuration", keywords |->
          <<<<"c", "o", "n", "f", "i", "g">>,
            <<"p", "r", "o", "p", "e", "r", "t", "y">>,
            <<"s", "e", "t", "t", "i", "n", "g">>>>],
       [category |-> "Data", keywords |->
          <<<<"d", "a", "t", "a">>,
            <<"d", "a", "t", "a", "b", "a", "s", "e">>,
            <<"s", "q", "l">>,
            <<"r", "e", "c", "o", "r", "d">>>>] >>

Categories ==
    {"Infrastructure", "Timeout", "Assertion", "Configuration", "Data", "Unknown"}

\* the branch of the if/elif chain of lines 343-354 that msg takes
RECURSIVE CategoryFrom(_, _)
CategoryFrom(msg, chain) ==
    IF chain = <<>> THEN "Unknown"
    ELSE IF ContainsAny(msg, Head(chain).keywords) THEN Head(chain).category
    ELSE CategoryFrom(msg, Tail(chain))

CategoryOf_TimeoutFirst(msg) ==
    CategoryFrom(msg, <<CategoryKeywords[2], CategoryKeywords[1]>>
                      \o SubSeq(CategoryKeywords, 3, Len(CategoryKeywords)))

CategoryOf(msg) == CategoryFrom(msg, CategoryKeywords)

_categorize_failures(error_messages) ==
    [c \in Categories |->
        Cardinality({i \in DOMAIN error_messages : CategoryOf(error_messages[i]) = c})]

\* the FAILED items of every launch in loop order, each with its launch_id and
\* the error_pattern line 123 extracts for it
RECURSIVE FailedItems(_)
FailedItems(data) ==
    IF data = <<>> THEN <<>>
    ELSE LET items  == IF IsList(Head(data).items) THEN Head(data).items ELSE <<>>
             Failed(item) == item.status = "FAILED"
             failed == SelectSeq(items, Failed)
         IN  [i \in DOMAIN failed |->
                [test_name |-> failed[i].name, launch_id |-> Head(data).launch_id,
                 description |-> failed[i].description,
                 error_pattern |-> _extract_error_pattern(failed[i].description)]]
             \o FailedItems(Tail(data))

\* line 124: the items that are appended to a group and to error_messages
HasPattern(failure) == failure.error_pattern # NoneSig

\* the dict appended to a group at lines 125-129
FailureEntry(failure) ==
    [test_name |-> failure.test_name, launch_id |-> failure.launch_id,
     description |-> failure.description]

\* the keys of failure_patterns in insertion order
RECURSIVE FirstSeenSigs(_, _)
FirstSeenSigs(failures, seen) ==
    IF failures = <<>> THEN <<>>
    ELSE LET sig == Head(failures).error_pattern
         IN  IF sig \in seen THEN FirstSeenSigs(Tail(failures), seen)
             ELSE <<sig>> \o FirstSeenSigs(Tail(failures), seen \cup {sig})

\* failure_patterns: the groups in insertion order, each [signature, failures]
FailurePatterns(failures) ==
    LET sigs == FirstSeenSigs(failures, {})
    IN  [g \in DOMAIN sigs |->
            LET Mine(f) == f.error_pattern = sigs[g]
                mine == SelectSeq(failures, Mine)
            IN  [signature |-> sigs[g],
                 failures |-> [i \in DOMAIN mine |-> FailureEntry(mine[i])]]]

\* where the pair e goes in the list s sorted by descending count (stable)
InsertByCount(s, e) ==
    LET before == {i \in DOMAIN s : e.count <= s[i].count}
        k == IF before = {} THEN 0
             ELSE CHOOSE i \in before : \A j \in before : j <= i
    IN  SubSeq(s, 1, k) \o <<e>> \o SubSeq(s, k + 1, Len(s))

RECURSIVE SortByCountDesc(_)
SortByCountDesc(s) ==
    IF s = <<>> THEN <<>>
    ELSE InsertByCount(SortByCountDesc(SubSeq(s, 1, Len(s) - 1)), s[Len(s)])

TopPatterns == 10

_get_top_patterns_Unsorted(failure_patterns) ==
    LET pattern_counts == [g \in DOMAIN failure_patterns |->
                             [pattern |-> failure_patterns[g].signature,
                              count |-> Len(failure_patterns[g].failures)]]
    IN  SubSeq(pattern_counts, 1,
               IF Len(pattern_counts) < TopPatterns THEN Len(pattern_counts) ELSE TopPatterns)

_get_top_patterns(failure_patterns) ==
    LET pattern_counts == [g \in DOMAIN failure_patterns |->
                             [pattern |-> failure_patterns[g].signature,
                              count |-> Len(failure_patterns[g].failures)]]
        sorted == SortByCountDesc(pattern_counts)
    IN  SubSeq(sorted, 1, IF Len(sorted) < TopPatterns THEN Len(sorted) ELSE TopPatterns)

analyze_failure_patterns(data) ==
    IF data = <<>> THEN EmptyDict
    ELSE LET grouped == SelectSeq(FailedItems(data), HasPattern)
             failure_patterns == FailurePatterns(grouped)
             error_messages == [i \in DOMAIN grouped |-> grouped[i].description]
         IN  [ failure_patterns      |-> failure_patterns,
               failure_categories    |-> _categorize_failures(error_messages),
               top_failure_patterns  |-> _get_top_patterns(failure_patterns),
               total_unique_failures |-> Len(failure_patterns) ]

----------------------------------------------------------------------------
(* Duration analytics *)

MsPerSecond == 1000

\* line 153: item.get('duration', 0); a duration is an integer, Null or Absent
DurationOf(item) == IF item.duration = Absent THEN 0 ELSE item.duration

\* line 154 compares None with 0
NullDuration(item) == item.duration = Null

HasDuration_NonNegative(item) == DurationOf(item) >= 0

\* line 154: the items whose duration is used
HasDuration(item) == DurationOf(item) > 0

\* duration / 1000
Seconds(item) == RNorm(DurationOf(item), MsPerSecond)

\* insert rational v into the ascending sequence s
RECURSIVE InsertRat(_, _)
InsertRat(s, v) ==
    IF s = <<>> THEN <<v>>
    ELSE IF RLt(v, Head(s)) THEN <<v>> \o s ELSE <<Head(s)>> \o InsertRat(Tail(s), v)

RECURSIVE SortRats(_)
SortRats(s) == IF s = <<>> THEN <<>> ELSE InsertRat(SortRats(Tail(s)), Head(s))

\* statistics.median of a non-empty sequence of rationals
RMedian(s) ==
    LET t == SortRats(s)
        n == Len(t)
    IN  IF n % 2 = 1 THEN t[(n + 1) \div 2]
        ELSE RDiv(RAdd(t[n \div 2], t[n \div 2 + 1]), RInt(2))

\* where the pair e goes in the list s sorted by descending avg_duration (stable)
InsertByDuration(s, e) ==
    LET before == {i \in DOMAIN s : RLe(e.avg_duration, s[i].avg_duration)}
        k == IF before = {} THEN 0
             ELSE CHOOSE i \in before : \A j \in before : j <= i
    IN  SubSeq(s, 1, k) \o <<e>> \o SubSeq(s, k + 1, Len(s))

RECURSIVE SortByDurationDesc(_)
SortByDurationDesc(s) ==
    IF s = <<>> THEN <<>>
    ELSE InsertByDuration(SortByDurationDesc(SubSeq(s, 1, Len(s) - 1)), s[Len(s)])

SlowestTests == 10

SlowestOf_MaxPerName(timed) ==
    LET names == FirstSeenNames(timed, {})
        avg == [n \in DOMAIN names |->
                   LET Mine(item) == item.name = names[n]
                       mine == SelectSeq(timed, Mine)
                       secs == SortRats([i \in DOMAIN mine |-> Seconds(mine[i])])
                   IN  [test_name |-> names[n], avg_duration |-> secs[Len(secs)]]]
        sorted == SortByDurationDesc(avg)
    IN  SubSeq(sorted, 1, IF Len(sorted) < SlowestTests THEN Len(sorted) ELSE SlowestTests)

\* lines 175-178
SlowestOf(timed) ==
    LET names == FirstSeenNames(timed, {})
        avg == [n \in DOMAIN names |->
                   LET Mine(item) == item.name = names[n]
                       mine == SelectSeq(timed, Mine)
                   IN  [test_name |-> names[n],
                        avg_duration |-> RMean([i \in DOMAIN mine |-> Seconds(mine[i])])]]
        sorted == SortByDurationDesc(avg)
    IN  SubSeq(sorted, 1, IF Len(sorted) < SlowestTests THEN Len(sorted) ELSE SlowestTests)

calculate_test_duration_analytics(data) ==
    IF data = <<>> THEN EmptyDict
    ELSE IF SelectSeq(AllItems(data), NullDuration) # <<>> THEN TypeError
    ELSE LET timed == SelectSeq(AllItems(data), HasDuration)
             durations == [i \in DOMAIN timed |-> Seconds(timed[i])]
         IN  IF durations = <<>> THEN EmptyDict
             ELSE [ avg_test_duration    |-> RMean(durations),
                    median_test_duration |-> RMedian(durations),
                    min_test_duration    |-> SortRats(durations)[1],
                    max_test_duration    |-> SortRats(durations)[Len(durations)],
                    duration_std         |-> IF Len(durations) > 1 THEN RStdev(durations)
                                             ELSE RZero,
                    total_tests_with_duration |-> Len(durations),
                    slowest_tests        |-> SlowestOf(timed) ]

----------------------------------------------------------------------------
(* Executive summary *)

\* d.get(key, default)
Get(d, key, default) == IF key \in DOMAIN d THEN d[key] ELSE default

RECURSIVE Pow10(_)
Pow10(k) == IF k = 0 THEN 1 ELSE 10 * Pow10(k - 1)

\* a / b rounded down, b > 0
FloorDiv(a, b) == IF a >= 0 THEN a \div b ELSE -((-a + b - 1) \div b)

\* round(a, digits): to the nearest multiple of 10^-digits, a tie to the even one
RRound(a, digits) ==
    LET n  == a[1] * Pow10(digits)
        fl == FloorDiv(n, a[2])
        r2 == 2 * (n - fl * a[2])
        up == r2 > a[2] \/ (r2 = a[2] /\ fl % 2 = 1)
    IN  RNorm(IF up THEN fl + 1 ELSE fl, Pow10(digits))

RMin(a, b) == IF RLe(a, b) THEN a ELSE b

RMax(a, b) == IF RLe(a, b) THEN b ELSE a

FlakyPenalty_DroppedAtCap(n) ==
    IF n > 0 /\ n * 2 <= 20 THEN RInt(n * 2) ELSE RZero

\* lines 382-384
FlakyPenalty(n) == IF n > 0 THEN RMin(RInt(n * 2), RInt(20)) ELSE RZero

PatternPenalty_FromZero(unique_failures) ==
    IF unique_failures > 5 THEN RMin(RMul(RInt(unique_failures), <<3, 2>>), RInt(15))
    ELSE RZero

\* lines 388-390
PatternPenalty(unique_failures) ==
    IF unique_failures > 5
    THEN RMin(RMul(RInt(unique_failures - 5), <<3, 2>>), RInt(15))
    ELSE RZero

\* lines 394-396
StabilityPenalty(pass_rate_std) ==
    IF RLt(RInt(10), pass_rate_std)
    THEN RMin(RMul(RSub(pass_rate_std, RInt(10)), <<1, 2>>), RInt(10))
    ELSE RZero

_calculate_quality_score_Base100(exec_metrics, flaky_tests, failure_analysis) ==
    LET pass_rate == Get(exec_metrics, "overall_pass_rate", RInt(100))
        unique_failures == Get(failure_analysis, "total_unique_failures", 0)
        pass_rate_std == Get(exec_metrics, "pass_rate_std", RZero)
        score == RSub(RSub(RSub(pass_rate, FlakyPenalty(Len(flaky_tests))),
                           PatternPenalty(unique_failures)),
                      StabilityPenalty(pass_rate_std))
    IN  RMax(RZero, RMin(RInt(100), RRound(score, 1)))

_calculate_quality_score(exec_metrics, flaky_tests, failure_analysis) ==
    LET pass_rate == Get(exec_metrics, "overall_pass_rate", RZero)
        unique_failures == Get(failure_analysis, "total_unique_failures", 0)
        pass_rate_std == Get(exec_metrics, "pass_rate_std", RZero)
        score == RSub(RSub(RSub(pass_rate, FlakyPenalty(Len(flaky_tests))),
                           PatternPenalty(unique_failures)),
                      StabilityPenalty(pass_rate_std))
    IN  RMax(RZero, RMin(RInt(100), RRound(score, 1)))

\* sum(d.values())
RECURSIVE SumValues(_, _)
SumValues(d, keys) ==
    IF keys = {} THEN 0
    ELSE LET k == CHOOSE k \in keys : TRUE
         IN  d[k] + SumValues(d, keys \ {k})

_identify_critical_issues_AtLeast(failure_analysis) ==
    LET failure_categories == Get(failure_analysis, "failure_categories", EmptyDict)
        total_failures == SumValues(failure_categories, DOMAIN failure_categories)
        infra_pct == RMul(RNorm(Get(failure_categories, "Infrastructure", 0),
                                total_failures), RInt(100))
        timeout_pct == RMul(RNorm(Get(failure_categories, "Timeout", 0),
                                  total_failures), RInt(100))
        unique_failures == Get(failure_analysis, "total_unique_failures", 0)
    IN  IF total_failures = 0 THEN <<>>
        ELSE (IF RLe(RInt(30), infra_pct)
              THEN <<[issue |-> "High infrastructure failure rate",
                      value |-> RRound(infra_pct, 1)]>>
              ELSE <<>>)
             \o (IF RLt(RInt(20), timeout_pct)
                 THEN <<[issue |-> "Frequent timeout issues",
                         value |-> RRound(timeout_pct, 1)]>>
                 ELSE <<>>)
             \o (IF unique_failures > 15
                 THEN <<[issue |-> "High failure pattern diversity",
                         value |-> RInt(unique_failures)]>>
                 ELSE <<>>)

\* the messages of lines 413, 418 and 423, each as [issue, value]; the value is
\* the number the message prints (a percentage to one decimal, or a count)
_identify_critical_issues(failure_analysis) ==
    LET failure_categories == Get(failure_analysis, "failure_categories", EmptyDict)
        total_failures == SumValues(failure_categories, DOMAIN failure_categories)
        infra_pct == RMul(RNorm(Get(failure_categories, "Infrastructure", 0),
                                total_failures), RInt(100))
        timeout_pct == RMul(RNorm(Get(failure_categories, "Timeout", 0),
                                  total_failures), RInt(100))
        unique_failures == Get(failure_analysis, "total_unique_failures", 0)
    IN  IF total_failures = 0 THEN <<>>
        ELSE (IF RLt(RInt(30), infra_pct)
              THEN <<[issue |-> "High infrastructure failure rate",
                      value |-> RRound(infra_pct, 1)]>>
              ELSE <<>>)
             \o (IF RLt(RInt(20), timeout_pct)
                 THEN <<[issue |-> "Frequent timeout issues",
                         value |-> RRound(timeout_pct, 1)]>>
                 ELSE <<>>)
             \o (IF unique_failures > 15
                 THEN <<[issue |-> "High failure pattern diversity",
                         value |-> RInt(unique_failures)]>>
                 ELSE <<>>)

DefaultMinOccurrences == 3

DefaultDaysBack == 30

TopFlaky == 5

\* the dict generate_executive_summary returns; has_col is the state of the
\* 'start_time' column after its call of calculate_test_execution_metrics
generate_executive_summary(df, data, has_col, now) ==
    LET exec_metrics == calculate_test_execution_metrics(df, has_col)
        flaky_tests == detect_flaky_tests(data, DefaultMinOccurrences)
        failure_analysis == analyze_failure_patterns(data)
        duration_analytics == calculate_test_duration_analytics(data)
        historical_comparison ==
            generate_historical_comparison(df, has_col, now, DefaultDaysBack)
        quality_score == _calculate_quality_score(exec_metrics, flaky_tests, failure_analysis)
    IN  IF exec_metrics = KeyError THEN KeyError
        ELSE IF duration_analytics = TypeError THEN TypeError
        ELSE IF historical_comparison = KeyError THEN KeyError
        ELSE
        [ overview |->
            [ total_launches |-> Get(exec_metrics, "total_launches", 0),
              total_tests |-> Get(exec_metrics, "total_tests_executed", 0),
              overall_pass_rate |-> RRound(Get(exec_metrics, "overall_pass_rate", RZero), 2),
              quality_score |-> quality_score ],
          test_stability |->
            [ flaky_tests_detected |-> Len(flaky_tests),
              top_flaky_tests |->
                  SubSeq(flaky_tests, 1,
                         IF Len(flaky_tests) < TopFlaky THEN Len(flaky_tests) ELSE TopFlaky),
              pass_rate_stability |-> Get(exec_metrics, "pass_rate_std", RZero) ],
          failure_insights |->
            [ unique_failure_patterns |-> Get(failure_analysis, "total_unique_failures", 0),
              top_failure_categories |-> Get(failure_analysis, "failure_categories", EmptyDict),
              critical_issues |-> _identify_critical_issues(failure_analysis) ],
          performance |-> duration_analytics,
          trends |-> historical_comparison ]

----------------------------------------------------------------------------
(* The engine as a state machine: __init__ builds an instance, and every   *)
(* later step is one call of a report operation on it.                     *)

Ops == { "calculate_test_execution_metrics", "detect_flaky_tests",
         "analyze_failure_patterns", "calculate_test_duration_analytics",
         "generate_historical_comparison", "generate_executive_summary",
         "_calculate_quality_score", "_identify_critical_issues" }

Launch(st, t, p, f, s) ==
    [startTime |-> st, total |-> t, passed |-> p, failed |-> f, skipped |-> s]

Item(n, st, desc, dur) ==
    [name |-> n, status |-> st, description |-> desc, duration |-> dur]

\* all sequences over S of length at most n
SeqsUpTo(S, n) == UNION {[1..k -> S] : k \in 0..n}

\* __init__ (lines 20-22): the table has no 'start_time' column yet
Constructed(launches, items, now) ==
    /\ clock = now
    /\ launches_data = launches
    /\ test_items_data = items
    /\ start_time_col = FALSE
    /\ returned = [op \in Ops |-> {}]
    /\ args = EmptyDict
    /\ peer = [start_time_col |-> FALSE, returned |-> [op \in Ops |-> {}]]
    /\ NoChat

Returns(op, arg, result) ==
    returned' = [returned EXCEPT ![op] = @ \cup {<<arg, result>>}]

CalcMetrics_OnTheRecords ==
    LET has_col == StartTimeColAfterMetrics(launches_data, start_time_col)
    IN  /\ start_time_col' = has_col
        /\ Returns("calculate_test_execution_metrics", <<>>,
                   calculate_test_execution_metrics(launches_data, has_col))
        /\ launches_data' =
              [i \in DOMAIN launches_data |->
                  [f \in DOMAIN launches_data[i] \cup {"start_time"} |->
                      IF f = "start_time" THEN ToDatetime(launches_data[i].startTime)
                      ELSE launches_data[i][f]]]
        /\ UNCHANGED <<test_items_data, clock, args, peer, chat_vars>>

\* calculate_test_execution_metrics(): line 31 adds the column to the table
\* self.df_launches, which line 22 built from the records
CalcMetrics ==
    LET has_col == StartTimeColAfterMetrics(launches_data, start_time_col)
    IN  /\ start_time_col' = has_col
        /\ Returns("calculate_test_execution_metrics", <<>>,
                   calculate_test_execution_metrics(launches_data, has_col))
        /\ UNCHANGED <<launches_data, test_items_data, clock, args, peer, chat_vars>>

\* detect_flaky_tests(min_occurrences)
DetectFlakyWith(min_occurrences) ==
    /\ Returns("detect_flaky_tests", <<min_occurrences>>,
               detect_flaky_tests(test_items_data, min_occurrences))
    /\ UNCHANGED <<launches_data, test_items_data, start_time_col, clock, args, peer, chat_vars>>

\* detect_flaky_tests(), as main.py calls it
DetectFlakyDefault == DetectFlakyWith(DefaultMinOccurrences)

AnalyzeFailures ==
    /\ Returns("analyze_failure_patterns", <<>>, analyze_failure_patterns(test_items_data))
    /\ UNCHANGED <<launches_data, test_items_data, start_time_col, clock, args, peer, chat_vars>>

DurationAnalytics ==
    /\ Returns("calculate_test_duration_analytics", <<>>,
               calculate_test_duration_analytics(test_items_data))
    /\ UNCHANGED <<launches_data, test_items_data, start_time_col, clock, args, peer, chat_vars>>

\* generate_historical_comparison(), as main.py calls it
HistoricalComparison ==
    /\ Returns("generate_historical_comparison", <<clock, DefaultDaysBack>>,
               generate_historical_comparison(launches_data, start_time_col,
                                              clock, DefaultDaysBack))
    /\ UNCHANGED <<launches_data, test_items_data, start_time_col, clock, args, peer, chat_vars>>

ExecutiveSummary ==
    LET has_col == StartTimeColAfterMetrics(launches_data, start_time_col)
    IN  /\ start_time_col' = has_col
        /\ Returns("generate_executive_summary", <<clock>>,
                   generate_executive_summary(launches_data, test_items_data,
                                              has_col, clock))
        /\ UNCHANGED <<launches_data, test_items_data, clock, args, peer, chat_vars>>

----------------------------------------------------------------------------
(* Spec: one instance on small inputs, every operation callable in any order *)

MaxEngineLaunches == 2

EngineLaunchRecords ==
    {Launch(st, t, 1, 1, 0) : st \in {10, 90}, t \in {1, 4}}

EngineNow == 100

D_AssertionError == <<"A", "s", "s", "e", "r", "t", "i", "o", "n", "E", "r", "r", "o", "r">>

EngineItems ==
    { <<>>,
      << [launch_id |-> 1, items |->
            << Item("a", "PASSED", <<>>, 1000),
               Item("a", "FAILED", D_AssertionError, 3000),
               Item("a", "PASSED", <<>>, 0) >>] >> }

Init ==
    \E launches \in SeqsUpTo(EngineLaunchRecords, MaxEngineLaunches) :
        \E items \in EngineItems : Constructed(launches, items, EngineNow)

Next ==
    \/ CalcMetrics
    \/ DetectFlakyDefault
    \/ AnalyzeFailures
    \/ DurationAnalytics
    \/ HistoricalComparison
    \/ ExecutiveSummary

Spec == Init /\ [][Next]_vars

----------------------------------------------------------------------------
(* SpecMetrics: the launch-table reports on every launch list of at most   *)
(* MaxLaunches records                                                     *)

MaxLaunches == 2

\* total, passed, failed, skipped of a launch; total is not tied to the others
Outcomes ==
    { <<0, 0, 0, 0>>, <<4, 1, 1, 1>>, <<4, 2, 0, 0>>, <<1, 0, 1, 0>>, <<2, 2, 1, 0>> }

LaunchRecords ==
    {Launch(st, o[1], o[2], o[3], o[4]) : st \in {Null, 10, 90}, o \in Outcomes}

\* the end-to-end scenario: passed = [8, 9, 7], failed = [2, 1, 3], total 10 each
ScenarioLaunches ==
    <<Launch(10, 10, 8, 2, 0), Launch(50, 10, 9, 1, 0), Launch(90, 10, 7, 3, 0)>>

Nows == {40, 100, 130}

\* two launches started before day 70 and one after it, with any outcomes,
\* supplied in any order
MixedLaunches ==
    {<<Launch(t[1], a[1], a[2], a[3], a[4]), Launch(t[2], b[1], b[2], b[3], b[4]),
       Launch(t[3], c[1], c[2], c[3], c[4])>> :
        a \in Outcomes, b \in Outcomes, c \in Outcomes,
        t \in {<<10, 20, 90>>, <<10, 90, 20>>, <<20, 10, 90>>,
               <<20, 90, 10>>, <<90, 10, 20>>, <<90, 20, 10>>}}

InitMetrics ==
    \E launches \in SeqsUpTo(LaunchRecords, MaxLaunches) \cup {ScenarioLaunches}
                        \cup MixedLaunches :
        \E now \in Nows : Constructed(launches, <<>>, now)

NextMetrics ==
    \/ CalcMetrics
    \/ HistoricalComparison

SpecMetrics == InitMetrics /\ [][NextMetrics]_vars

\* the results calculate_test_execution_metrics has returned
MetricsReturned == {e[2] : e \in returned["calculate_test_execution_metrics"]}

TotalPassed == SumSeq([i \in DOMAIN launches_data |-> launches_data[i].passed])

TotalFailed == SumSeq([i \in DOMAIN launches_data |-> launches_data[i].failed])

----------------------------------------------------------------------------
(* SpecFlaky: detect_flaky_tests on every item stream of at most MaxItems  *)
(* items, held by two launches                                             *)

MaxItems == 5

MinOccurrences == {2, 3}

\* test "a" with every status, also a missing one; test "b" passing or failing;
\* items with a missing name
FlakyItemRecords ==
    {Item("a", st, <<>>, 0) : st \in {"PASSED", "FAILED", "SKIPPED", ""}}
    \cup {Item("b", st, <<>>, 0) : st \in {"PASSED", "FAILED"}}
    \cup {Item("", st, <<>>, 0) : st \in {"PASSED", "FAILED"}}

\* the items s as the lists of two launches, the first holding the first half
TwoLaunches(s) ==
    << [launch_id |-> 1, items |-> SubSeq(s, 1, Len(s) \div 2)],
       [launch_id |-> 2, items |-> SubSeq(s, Len(s) \div 2 + 1, Len(s))] >>

InitFlaky ==
    \E s \in SeqsUpTo(FlakyItemRecords, MaxItems) :
        Constructed(<<>>, IF s = <<>> THEN <<>> ELSE TwoLaunches(s), EngineNow)

DetectFlaky == \E m \in MinOccurrences : DetectFlakyWith(m)

NextFlaky == DetectFlaky

SpecFlaky == InitFlaky /\ [][NextFlaky]_vars

----------------------------------------------------------------------------
(* SpecCategorize: the failure analysis of one FAILED item, for every       *)
(* description of at most MaxWords words                                   *)

MaxWords == 2

Vocabulary ==
    { <<"C", "o", "n", "n", "e", "c", "t", "i", "o", "n">>,
      <<"t", "i", "m", "e", "o", "u", "t">>,
      <<"t", "i", "m", "e", "d">>,
      <<"o", "u", "t">>,
      <<"e", "x", "p", "e", "c", "t", "e", "d">>,
      <<"c", "o", "n", "f", "i", "g">>,
      <<"d", "a", "t", "a", "b", "a", "s", "e">>,
      <<"E", "r", "r", "o", "r">>,
      <<"b", "o", "o", "m">>,
      <<"l", "o", "g", "i", "n", "_", "f", "a", "i", "l", "e", "d">>,
      <<"A", "s", "s", "e", "r", "t", "i", "o", "n", "E", "r", "r", "o", "r">>,
      <<"T", "i", "m", "e", "o", "u", "t", "E", "x", "c", "e", "p", "t", "i", "o", "n">>,
      <<"H", "T", "T", "P">>,
      <<"5", "0", "0">>,
      <<"C", "o", "n", "n", "e", "c", "t", "i", "o", "n", " ", "r", "e", "f", "u", "s", "e", "d", " ", "t", "o", " ", "h", "t", "t", "p", " ", "s", "e", "r", "v", "e", "r">> }

D_ConnectionRefused == <<"C", "o", "n", "n", "e", "c", "t", "i", "o", "n", " ", "r", "e", "f", "u", "s", "e", "d", " ", "t", "o", " ", "h", "t", "t", "p", " ", "s", "e", "r", "v", "e", "r">>

D_ConnectionTimeout == <<"C", "o", "n", "n", "e", "c", "t", "i", "o", "n", " ", "t", "i", "m", "e", "o", "u", "t">>

\* " ".join(words)
RECURSIVE Join(_)
Join(words) ==
    IF words = <<>> THEN <<>>
    ELSE IF Len(words) = 1 THEN words[1]
    ELSE words[1] \o <<" ">> \o Join(Tail(words))

Descriptions == {Join(ws) : ws \in SeqsUpTo(Vocabulary, MaxWords)}

InitCategorize ==
    \E d \in Descriptions :
        Constructed(<<>>, <<[launch_id |-> 1, items |-> <<Item("t", "FAILED", d, 0)>>]>>,
                    EngineNow)

NextCategorize == AnalyzeFailures

SpecCategorize == InitCategorize /\ [][NextCategorize]_vars

----------------------------------------------------------------------------
(* SpecFailure: the failure analysis of at most MaxFailureItems items       *)

MaxFailureItems == 3

D_Boom == <<"b", "o", "o", "m">>

D_LoginFailed == <<"l", "o", "g", "i", "n", "_", "f", "a", "i", "l", "e", "d", " ", "a", "t", " ", "s", "t", "e", "p", " ", "2">>

FailureItemRecords ==
    { Item("t1", "FAILED", <<>>, 0),
      Item("t2", "FAILED", D_Boom, 0),
      Item("t3", "FAILED", D_AssertionError, 0),
      Item("t4", "FAILED", D_ConnectionTimeout, 0),
      Item("t5", "FAILED", D_LoginFailed, 0),
      Item("t6", "PASSED", D_Boom, 0),
      Item("t7", "SKIPPED", <<>>, 0) }

InitFailure ==
    \E s \in SeqsUpTo(FailureItemRecords, MaxFailureItems) :
        Constructed(<<>>, IF s = <<>> THEN <<>> ELSE TwoLaunches(s), EngineNow)

NextFailure == AnalyzeFailures

SpecFailure == InitFailure /\ [][NextFailure]_vars

----------------------------------------------------------------------------
(* SpecTopPatterns: the failure analysis of FAILED items of up to           *)
(* MaxSignatures distinct signatures, one item each and two for up to       *)
(* MaxRepeated of them                                                     *)

MaxSignatures == 11

MaxRepeated == 3

\* the description of the items of the k-th signature: one word ending in Error
SignatureWord(k) == <<LowerCase[k], "E", "r", "r", "o", "r">>

\* counts[k] FAILED items of signature k, for k = 1..Len(counts), in this order
RECURSIVE ItemsOfSignatures(_, _)
ItemsOfSignatures(counts, k) ==
    IF k > Len(counts) THEN <<>>
    ELSE [i \in 1..counts[k] |-> Item("t", "FAILED", SignatureWord(k), 0)]
         \o ItemsOfSignatures(counts, k + 1)

InitTopPatterns ==
    \E n \in 0..MaxSignatures : \E counts \in [1..n -> {1, 2}] :
        /\ Cardinality({k \in 1..n : counts[k] = 2}) <= MaxRepeated
        /\ Constructed(<<>>, <<[launch_id |-> 1, items |-> ItemsOfSignatures(counts, 1)]>>,
                       EngineNow)

NextTopPatterns == AnalyzeFailures

SpecTopPatterns == InitTopPatterns /\ [][NextTopPatterns]_vars

----------------------------------------------------------------------------
(* SpecDuration: the duration analytics of at most MaxDurationItems items   *)

MaxDurationItems == 3

\* milliseconds: absent, negative, zero and positive
DurationValues == {Absent, -500, 0, 1000, 2000, 3000}

DurationItemRecords ==
    {Item(n, "PASSED", <<>>, d) : n \in {"a", "b"}, d \in DurationValues}

InitDuration ==
    \E s \in SeqsUpTo(DurationItemRecords, MaxDurationItems) :
        Constructed(<<>>, IF s = <<>> THEN <<>> ELSE TwoLaunches(s), EngineNow)

NextDuration == DurationAnalytics

SpecDuration == InitDuration /\ [][NextDuration]_vars

----------------------------------------------------------------------------
(* SpecSlowest: the duration analytics of the items of SpecDuration, and of *)
(* up to MaxNames test names, each with one run of 1 s or, for up to       *)
(* MaxTwice of them, runs of 0 s, 1 s and 4 s                              *)

MaxNames == 11

MaxTwice == 3

\* the items of the k-th name, for k = 1..Len(runs), in this order
RECURSIVE ItemsOfNames(_, _)
ItemsOfNames(runs, k) ==
    IF k > Len(runs) THEN <<>>
    ELSE (IF runs[k] = 1 THEN <<Item(LowerCase[k], "PASSED", <<>>, 1000)>>
          ELSE <<Item(LowerCase[k], "PASSED", <<>>, 1000),
                 Item(LowerCase[k], "FAILED", <<>>, 0),
                 Item(LowerCase[k], "PASSED", <<>>, 4000)>>)
         \o ItemsOfNames(runs, k + 1)

InitSlowest ==
    \/ InitDuration
    \/ \E n \in 1..MaxNames : \E runs \in [1..n -> {1, 2}] :
          /\ Cardinality({k \in 1..n : runs[k] = 2}) <= MaxTwice
          /\ Constructed(<<>>, <<[launch_id |-> 1, items |-> ItemsOfNames(runs, 1)]>>,
                         EngineNow)

NextSlowest == DurationAnalytics

SpecSlowest == InitSlowest /\ [][NextSlowest]_vars

----------------------------------------------------------------------------
(* SpecQuality: _calculate_quality_score called on its own, once on any     *)
(* arguments and once more with one argument raised                        *)

MaxFlaky == 11

MaxUnique == 16

PassRateValues == {<<0, 1>>, <<25, 4>>, <<45, 1>>, <<200, 3>>, <<250, 3>>, <<100, 1>>}

StdValues == {<<0, 1>>, <<10, 1>>, <<21, 2>>, <<20, 1>>, <<30, 1>>, <<40, 1>>}

\* exec_metrics: {} or the two entries the score reads
ExecMetricsValues ==
    {EmptyDict} \cup {[overall_pass_rate |-> r, pass_rate_std |-> d] :
                         r \in PassRateValues, d \in StdValues}

\* no instance state is involved
NoInstance ==
    /\ clock = EngineNow
    /\ launches_data = <<>>
    /\ test_items_data = <<>>
    /\ start_time_col = FALSE
    /\ returned = [op \in Ops |-> {}]
    /\ peer = [start_time_col |-> FALSE, returned |-> [op \in Ops |-> {}]]
    /\ NoChat

InitQuality ==
    /\ NoInstance
    /\ \E m \in ExecMetricsValues, n \in 0..MaxFlaky, u \in 0..MaxUnique :
          args = [exec_metrics |-> m, flaky_count |-> n, unique_failures |-> u]

\* _calculate_quality_score(exec_metrics, flaky_tests, failure_analysis) with a
\* list of flaky_count records and total_unique_failures = unique_failures
CalculateQualityScore ==
    /\ Returns("_calculate_quality_score", args,
               _calculate_quality_score(args.exec_metrics,
                                        [i \in 1..args.flaky_count |-> [test_name |-> i]],
                                        [total_unique_failures |-> args.unique_failures]))
    /\ UNCHANGED <<launches_data, test_items_data, start_time_col, clock, args, peer, chat_vars>>

\* the caller raises one argument between the first call and the second
RaiseArgument ==
    /\ Cardinality(returned["_calculate_quality_score"]) = 1
    /\ \E e \in returned["_calculate_quality_score"] : e[1] = args
    /\ \/ \E n \in (args.flaky_count + 1)..MaxFlaky :
              args' = [args EXCEPT !.flaky_count = n]
       \/ \E u \in (args.unique_failures + 1)..MaxUnique :
              args' = [args EXCEPT !.unique_failures = u]
       \/ /\ args.exec_metrics # EmptyDict
          /\ \E d \in StdValues :
                /\ RLt(args.exec_metrics.pass_rate_std, d)
                /\ args' = [args EXCEPT !.exec_metrics.pass_rate_std = d]
    /\ UNCHANGED <<launches_data, test_items_data, start_time_col, clock, returned, peer, chat_vars>>

NextQuality ==
    \/ CalculateQualityScore
    \/ RaiseArgument

SpecQuality == InitQuality /\ [][NextQuality]_vars

----------------------------------------------------------------------------
(* SpecDegenerate: one instance on degenerate but well-formed inputs, every *)
(* operation callable in any order                                         *)

MaxDegenerateLaunches == 2

\* launches without decisive outcome, without start time, or without tests
DegenerateLaunchRecords ==
    { Launch(Null, 4, 0, 0, 4), Launch(Null, 0, 0, 0, 0),
      Launch(10, 4, 0, 0, 4), Launch(Null, 2, 1, 1, 0) }

\* no mapping, a launch without items, items without duration
DegenerateItems ==
    { <<>>,
      << [launch_id |-> 1, items |-> <<>>] >>,
      << [launch_id |-> 1, items |->
            << Item("a", "PASSED", <<>>, 0), Item("a", "FAILED", D_Boom, 0),
               Item("a", "PASSED", <<>>, Absent) >>] >> }

InitDegenerate ==
    \E launches \in SeqsUpTo(DegenerateLaunchRecords, MaxDegenerateLaunches) :
        \E items \in DegenerateItems : Constructed(launches, items, EngineNow)

NextDegenerate ==
    \/ CalcMetrics
    \/ DetectFlakyDefault
    \/ AnalyzeFailures
    \/ DurationAnalytics
    \/ HistoricalComparison
    \/ ExecutiveSummary

SpecDegenerate == InitDegenerate /\ [][NextDegenerate]_vars

----------------------------------------------------------------------------
(* SpecMalformed: one instance on records that lack fields, every operation *)
(* callable in any order                                                   *)

MaxMalformedLaunches == 2

CountFields == {"total", "passed", "failed", "skipped"}

\* the launch record l without the keys in missing
Lacking(l, missing) == [f \in DOMAIN l |-> IF f \in missing THEN Absent ELSE l[f]]

\* the count fields that the records of a launch list lack: none, one, or all
MissingFieldSets == {{}} \cup {{f} : f \in CountFields} \cup {CountFields}

\* items that lack a name, a status, a description or a duration, the last
\* one with a duration of null
MalformedItems ==
    { <<>>,
      << [launch_id |-> 1, items |->
            << Item("", "PASSED", <<>>, 1000), Item("a", "", <<>>, 2000),
               Item("a", "FAILED", <<>>, Absent) >>] >>,
      << [launch_id |-> 1, items |->
            << Item("a", "PASSED", <<>>, 1000), Item("a", "FAILED", D_Boom, Null) >>] >> }

InitMalformed ==
    \E launches \in SeqsUpTo(EngineLaunchRecords, MaxMalformedLaunches) :
        \E missing \in MissingFieldSets : \E items \in MalformedItems :
            Constructed([i \in DOMAIN launches |-> Lacking(launches[i], missing)],
                        items, EngineNow)

NextMalformed ==
    \/ CalcMetrics
    \/ DetectFlakyDefault
    \/ AnalyzeFailures
    \/ DurationAnalytics
    \/ HistoricalComparison
    \/ ExecutiveSummary

SpecMalformed == InitMalformed /\ [][NextMalformed]_vars

----------------------------------------------------------------------------
(* SpecCritical: _identify_critical_issues called on its own, on the report *)
(* of a failure analysis                                                   *)

MaxCategoryCount == 6

\* failure_categories as _categorize_failures returns it: every category
\* present, here with failures in Infrastructure, Timeout and Unknown
CategoryCounts ==
    {[c \in Categories |-> IF c = "Infrastructure" THEN i
                           ELSE IF c = "Timeout" THEN t
                           ELSE IF c = "Unknown" THEN o ELSE 0] :
        i \in 0..MaxCategoryCount, t \in 0..MaxCategoryCount,
        o \in 0..(2 * MaxCategoryCount)}

\* a failure analysis: {} or the two entries the operation reads; every pattern
\* falls in one category and every categorized failure has a pattern
FailureAnalysisValues ==
    {EmptyDict} \cup
    UNION {{[failure_categories |-> fc, total_unique_failures |-> u] :
               u \in {n \in 0..(4 * MaxCategoryCount) :
                         /\ Cardinality({c \in Categories : fc[c] > 0}) <= n
                         /\ n <= SumValues(fc, Categories)}} :
           fc \in CategoryCounts}

InitCritical ==
    /\ NoInstance
    /\ \E fa \in FailureAnalysisValues : args = [failure_analysis |-> fa]

IdentifyCriticalIssues ==
    /\ Returns("_identify_critical_issues", args,
               _identify_critical_issues(args.failure_analysis))
    /\ UNCHANGED <<launches_data, test_items_data, start_time_col, clock, args, peer, chat_vars>>

NextCritical == IdentifyCriticalIssues

SpecCritical == InitCritical /\ [][NextCritical]_vars

----------------------------------------------------------------------------
(* SpecConcurrent: two instances built from the same launch list and the    *)
(* same item mapping; every step is one operation of one of them           *)

\* the peer's operation op returns result and leaves its table with column col
PeerReturns(op, arg, result, col) ==
    peer' = [start_time_col |-> col,
             returned |-> [peer.returned EXCEPT ![op] = @ \cup {<<arg, result>>}]]

PeerCalcMetrics_SharedTable ==
    LET has_col == StartTimeColAfterMetrics(launches_data, peer.start_time_col)
    IN  /\ PeerReturns("calculate_test_execution_metrics", <<>>,
                       calculate_test_execution_metrics(launches_data, has_col), has_col)
        /\ start_time_col' = has_col
        /\ UNCHANGED <<launches_data, test_items_data, clock, returned, args, chat_vars>>

\* line 31 writes the peer's own self.df_launches
PeerCalcMetrics ==
    LET has_col == StartTimeColAfterMetrics(launches_data, peer.start_time_col)
    IN  /\ PeerReturns("calculate_test_execution_metrics", <<>>,
                       calculate_test_execution_metrics(launches_data, has_col), has_col)
        /\ UNCHANGED <<launches_data, test_items_data, start_time_col, clock, returned, args, chat_vars>>

PeerDetectFlakyDefault ==
    /\ PeerReturns("detect_flaky_tests", <<DefaultMinOccurrences>>,
                   detect_flaky_tests(test_items_data, DefaultMinOccurrences),
                   peer.start_time_col)
    /\ UNCHANGED <<launches_data, test_items_data, start_time_col, clock, returned, args, chat_vars>>

PeerAnalyzeFailures ==
    /\ PeerReturns("analyze_failure_patterns", <<>>,
                   analyze_failure_patterns(test_items_data), peer.start_time_col)
    /\ UNCHANGED <<launches_data, test_items_data, start_time_col, clock, returned, args, chat_vars>>

PeerDurationAnalytics ==
    /\ PeerReturns("calculate_test_duration_analytics", <<>>,
                   calculate_test_duration_analytics(test_items_data), peer.start_time_col)
    /\ UNCHANGED <<launches_data, test_items_data, start_time_col, clock, returned, args, chat_vars>>

PeerHistoricalComparison ==
    /\ PeerReturns("generate_historical_comparison", <<clock, DefaultDaysBack>>,
                   generate_historical_comparison(launches_data, peer.start_time_col,
                                                  clock, DefaultDaysBack),
                   peer.start_time_col)
    /\ UNCHANGED <<launches_data, test_items_data, start_time_col, clock, returned, args, chat_vars>>

PeerExecutiveSummary ==
    LET has_col == StartTimeColAfterMetrics(launches_data, peer.start_time_col)
    IN  /\ PeerReturns("generate_executive_summary", <<clock>>,
                       generate_executive_summary(launches_data, test_items_data,
                                                  has_col, clock), has_col)
        /\ UNCHANGED <<launches_data, test_items_data, start_time_col, clock, returned, args, chat_vars>>

ConcurrentLaunches ==
    { <<>>, <<Launch(90, 4, 1, 1, 0)>>, <<Launch(10, 1, 1, 1, 0), Launch(90, 4, 1, 1, 0)>> }

ConcurrentItems ==
    << [launch_id |-> 1, items |->
          << Item("a", "PASSED", <<>>, 1000), Item("a", "FAILED", <<>>, 3000),
             Item("a", "PASSED", <<>>, 0) >>] >>

InitConcurrent ==
    \E launches \in ConcurrentLaunches :
        Constructed(launches, ConcurrentItems, EngineNow)

NextConcurrent ==
    \/ CalcMetrics
    \/ DetectFlakyDefault
    \/ AnalyzeFailures
    \/ DurationAnalytics
    \/ HistoricalComparison
    \/ ExecutiveSummary
    \/ PeerCalcMetrics
    \/ PeerDetectFlakyDefault
    \/ PeerAnalyzeFailures
    \/ PeerDurationAnalytics
    \/ PeerHistoricalComparison
    \/ PeerExecutiveSummary

SpecConcurrent == InitConcurrent /\ [][NextConcurrent]_vars

----------------------------------------------------------------------------
(* SpecPermuted: detect_flaky_tests on a mapping of three launches, and on  *)
(* an instance built from the same launches inserted in another order      *)

MaxLaunchItems == 2

PermutedLaunchIds == {1, 2, 3}

PermutedItemRecords ==
    { Item("a", "PASSED", <<>>, 0), Item("a", "FAILED", <<>>, 0) }

\* the orders in which the launches can be inserted into the mapping
InsertionOrders == {p \in [PermutedLaunchIds -> PermutedLaunchIds] :
                       \A i \in DOMAIN p : \A j \in DOMAIN p : i # j => p[i] # p[j]}

\* the second instance is built from args.test_items_data
InitPermuted ==
    \E lists \in [PermutedLaunchIds -> SeqsUpTo(PermutedItemRecords, MaxLaunchItems)] :
        \E p \in InsertionOrders :
            LET data == [l \in PermutedLaunchIds |-> [launch_id |-> l, items |-> lists[l]]]
            IN  /\ clock = EngineNow
                /\ launches_data = <<>>
                /\ test_items_data = data
                /\ start_time_col = FALSE
                /\ returned = [op \in Ops |-> {}]
                /\ args = [test_items_data |-> [l \in PermutedLaunchIds |-> data[p[l]]]]
                /\ peer = [start_time_col |-> FALSE, returned |-> [op \in Ops |-> {}]]
                /\ NoChat

\* detect_flaky_tests() of the second instance
PermutedDetectFlaky ==
    /\ PeerReturns("detect_flaky_tests", <<DefaultMinOccurrences>>,
                   detect_flaky_tests(args.test_items_data, DefaultMinOccurrences),
                   peer.start_time_col)
    /\ UNCHANGED <<launches_data, test_items_data, start_time_col, clock, returned, args, chat_vars>>

NextPermuted ==
    \/ DetectFlakyDefault
    \/ PermutedDetectFlaky

SpecPermuted == InitPermuted /\ [][NextPermuted]_vars

----------------------------------------------------------------------------
(* Claims *)

\* C1: the result of a report operation depends only on the constructor inputs
\* (and the current time), not on the operations called before it: two calls of
\* one operation with the same arguments on one instance return the same result.
C1_NoCrossCallState ==
    \A op \in Ops : \A e1 \in returned[op] : \A e2 \in returned[op] :
        e1[1] = e2[1] => e1[2] = e2[2]

\* C2: for a non-empty launch list, overall_pass_rate lies in [0, 100], and is
\* exactly 0 when total passed + total failed is 0.
C2_OverallPassRateBounded ==
    \A r \in MetricsReturned :
        launches_data # <<>> =>
            /\ RLe(RZero, r.overall_pass_rate)
            /\ RLe(r.overall_pass_rate, RInt(100))
            /\ (TotalPassed + TotalFailed = 0 => r.overall_pass_rate = RZero)

C2_Witness ==
    \E r \in MetricsReturned :
        /\ launches_data # <<>>
        /\ TotalPassed + TotalFailed = 0
        /\ r.overall_pass_rate = RZero

\* C3: the execution metrics pool the counts before dividing: total_launches is
\* the number of launches, total_tests_executed the sum of the total fields, the
\* three outcome totals the per-field sums, and overall_pass_rate is
\* 100 * total_passed / (total_passed + total_failed); the scenario
\* passed = [8, 9, 7], failed = [2, 1, 3], total = [10, 10, 10] gives 30 and 80.
C3_PooledCounts ==
    \A r \in MetricsReturned :
        launches_data # <<>> =>
            /\ r.total_launches = Len(launches_data)
            /\ r.total_tests_executed =
                   SumSeq([i \in DOMAIN launches_data |-> launches_data[i].total])
            /\ r.total_passed = TotalPassed
            /\ r.total_failed = TotalFailed
            /\ r.total_skipped =
                   SumSeq([i \in DOMAIN launches_data |-> launches_data[i].skipped])
            /\ (TotalPassed + TotalFailed > 0 =>
                   r.overall_pass_rate[1] * (TotalPassed + TotalFailed)
                       = 100 * TotalPassed * r.overall_pass_rate[2])
            /\ (launches_data = ScenarioLaunches =>
                   r.total_tests_executed = 30 /\ r.overall_pass_rate = RInt(80))

C3_Witness ==
    \E r \in MetricsReturned :
        /\ launches_data = ScenarioLaunches
        /\ r.total_tests_executed = 30
        /\ r.overall_pass_rate = RInt(80)

\* the launches with passed + failed > 0
Qualifying == {i \in DOMAIN launches_data :
                  launches_data[i].passed + launches_data[i].failed > 0}

\* the sum over the launches in S of 100 * passed / (passed + failed)
RECURSIVE SumOfRates(_)
SumOfRates(S) ==
    IF S = {} THEN RZero
    ELSE LET i == CHOOSE i \in S : TRUE
         IN  RAdd(RNorm(100 * launches_data[i].passed,
                        launches_data[i].passed + launches_data[i].failed),
                  SumOfRates(S \ {i}))

\* C4: avg_pass_rate is the mean of the per-launch pass rates over the launches
\* with passed + failed > 0 only, 0 when there is none, and pass_rate_std is 0
\* when fewer than two launches qualify.
C4_AvgPassRateOverDecisive ==
    \A r \in MetricsReturned :
        launches_data # <<>> =>
            /\ (Qualifying = {} => r.avg_pass_rate = RZero)
            /\ (Qualifying # {} =>
                   RMul(r.avg_pass_rate, RInt(Cardinality(Qualifying)))
                       = SumOfRates(Qualifying))
            /\ (Cardinality(Qualifying) < 2 => r.pass_rate_std = RZero)

C4_Witness ==
    \E r \in MetricsReturned :
        /\ Cardinality(Qualifying) = 1
        /\ Len(launches_data) > 1
        /\ RLt(RZero, r.avg_pass_rate)
        /\ r.pass_rate_std = RZero

----------------------------------------------------------------------------
(* Claims about detect_flaky_tests, stated on the input items *)

\* every item of the input, launch after launch
RECURSIVE ItemsFrom(_, _)
ItemsFrom(data, l) ==
    IF l > Len(data) THEN <<>>
    ELSE (IF data[l].items = NotAList THEN <<>> ELSE data[l].items)
         \o ItemsFrom(data, l + 1)

InputItems == ItemsFrom(test_items_data, 1)

\* the positions of the items carrying name
Carrying(items, name) == {i \in DOMAIN items : items[i].name = name}

\* the occurrences of name: the positions of the items carrying it and a status
Statused(items, name) ==
    {i \in DOMAIN items : items[i].name = name /\ items[i].status # ""}

WithStatus(items, name, st) ==
    {i \in DOMAIN items : items[i].name = name /\ items[i].status = st}

NamesOf(items) == {items[i].name : i \in DOMAIN items}

\* the test names of the input: an item with a missing name names no test
TestNames(items) == NamesOf(items) \ {""}

FlakyReturned == returned["detect_flaky_tests"]

Reported(res) == {res[i].test_name : i \in DOMAIN res}

\* C5 as stated: every reported record has total_runs >= min_occurrences and
\* total_runs equal to the number of items carrying that name, whatever their
\* status, and no test with fewer than min_occurrences items is reported.
C5_CountsEveryItem ==
    LET items == InputItems
    IN  \A e \in FlakyReturned :
            /\ \A i \in DOMAIN e[2] :
                  /\ e[2][i].total_runs >= e[1][1]
                  /\ e[2][i].total_runs = Cardinality(Carrying(items, e[2][i].test_name))
            /\ \A n \in NamesOf(items) :
                  Cardinality(Carrying(items, n)) < e[1][1] => n \notin Reported(e[2])

\* C5 as amended: every reported record has total_runs >= min_occurrences and
\* total_runs equal to the number of items carrying that name and a non-empty
\* status (several in one launch all count, and every non-empty status counts),
\* and no test with fewer than min_occurrences such items is reported.
C5_CountsEveryStatusedItem ==
    LET items == InputItems
    IN  \A e \in FlakyReturned :
            /\ \A i \in DOMAIN e[2] :
                  /\ e[2][i].total_runs >= e[1][1]
                  /\ e[2][i].total_runs = Cardinality(Statused(items, e[2][i].test_name))
            /\ \A n \in NamesOf(items) :
                  Cardinality(Statused(items, n)) < e[1][1] => n \notin Reported(e[2])

\* a reported test with a SKIPPED run and two runs in one launch, and a test
\* with status variety left out for having min_occurrences - 1 runs
C5_Witness ==
    LET items == InputItems
    IN  \E e \in FlakyReturned :
            /\ e[1][1] = 3
            /\ "a" \in Reported(e[2])
            /\ WithStatus(items, "a", "SKIPPED") # {}
            /\ Cardinality(Statused(items, "b")) = 2
            /\ WithStatus(items, "b", "PASSED") # {}
            /\ WithStatus(items, "b", "FAILED") # {}
            /\ "b" \notin Reported(e[2])

SwitchesOf(items, name) ==
    LET at == Statused(items, name)
    IN  Cardinality({i \in at :
            \E h \in at :
                /\ h < i
                /\ \A k \in at : ~(h < k /\ k < i)
                /\ items[h].status # items[i].status})

\* C7: for every reported test, flaky_score is 100 * (adjacent occurrence pairs
\* with differing status) / (total_runs - 1), lies in (0, 100], is 100 exactly
\* when every adjacent pair differs, passed + failed + skipped <= total_runs and
\* the status_distribution counts sum to total_runs.
C7_FlakyScore ==
    LET items == InputItems
    IN  \A e \in FlakyReturned : \A i \in DOMAIN e[2] :
            LET rec == e[2][i]
                switches == SwitchesOf(items, rec.test_name)
            IN  /\ rec.total_runs > 1
                /\ rec.flaky_score[1] * (rec.total_runs - 1)
                       = 100 * switches * rec.flaky_score[2]
                /\ RLt(RZero, rec.flaky_score)
                /\ RLe(rec.flaky_score, RInt(100))
                /\ (rec.flaky_score = RInt(100) <=> switches = rec.total_runs - 1)
                /\ rec.passed + rec.failed + rec.skipped <= rec.total_runs
                /\ SumValues(rec.status_distribution, DOMAIN rec.status_distribution)
                       = rec.total_runs

\* PASSED, FAILED, PASSED is reported with flaky_score 100
C7_Witness ==
    LET items == InputItems
    IN  \E e \in FlakyReturned :
            /\ [i \in DOMAIN items |-> items[i].status] = <<"PASSED", "FAILED", "PASSED">>
            /\ NamesOf(items) = {"a"}
            /\ Len(e[2]) = 1
            /\ e[2][1].flaky_score = RInt(100)

\* the position of the first statused item carrying name
FirstSeen(items, name) ==
    CHOOSE i \in Statused(items, name) : \A j \in Statused(items, name) : i <= j

\* C8: the returned list is ordered by flaky_score non-increasing, holds each
\* qualifying test name exactly once, and records of equal flaky_score are in
\* the order in which their names were first encountered.
C8_SortedStable ==
    LET items == InputItems
    IN  \A e \in FlakyReturned :
            /\ \A i \in DOMAIN e[2] : \A j \in DOMAIN e[2] :
                  i < j =>
                    /\ RLe(e[2][j].flaky_score, e[2][i].flaky_score)
                    /\ e[2][i].test_name # e[2][j].test_name
                    /\ (e[2][i].flaky_score = e[2][j].flaky_score =>
                           FirstSeen(items, e[2][i].test_name)
                               < FirstSeen(items, e[2][j].test_name))
            /\ \A n \in TestNames(items) :
                  (/\ Cardinality(Statused(items, n)) >= e[1][1]
                   /\ WithStatus(items, n, "PASSED") # {}
                   /\ WithStatus(items, n, "FAILED") # {}) => n \in Reported(e[2])

\* two records of equal score, in the order their names were first encountered
C8_Witness ==
    LET items == InputItems
    IN  \E e \in FlakyReturned :
            /\ Len(e[2]) = 2
            /\ e[2][1].flaky_score = e[2][2].flaky_score
            /\ FirstSeen(items, e[2][1].test_name) < FirstSeen(items, e[2][2].test_name)

----------------------------------------------------------------------------
(* Claims about analyze_failure_patterns, stated on the input items *)

\* the results analyze_failure_patterns has returned
FailureReturned == {e[2] : e \in returned["analyze_failure_patterns"]}

\* the positions of the FAILED items
FailedAt(items) == {i \in DOMAIN items : items[i].status = "FAILED"}

\* the description contains a keyword of the k-th category of the priority list
HasKeywordOf(description, k) ==
    \E w \in DOMAIN CategoryKeywords[k].keywords :
        Contains(Lower(description), CategoryKeywords[k].keywords[w])

\* the highest-priority category a keyword of which the description contains
HighestPriority(description) ==
    LET has == {k \in DOMAIN CategoryKeywords : HasKeywordOf(description, k)}
    IN  IF has = {} THEN "Unknown"
        ELSE CategoryKeywords[CHOOSE k \in has : \A h \in has : k <= h].category

\* C9: every categorized description is counted in exactly one of the six
\* categories, the one of highest priority (Infrastructure > Timeout > Assertion >
\* Configuration > Data) a keyword of which it contains, and in Unknown when it
\* contains none; 'Connection refused to http server' and a description with
\* both 'connection' and 'timeout' count as Infrastructure.
C9_HighestPriorityCategory ==
    LET items == InputItems
        msgs == {i \in FailedAt(items) : items[i].description # <<>>}
    IN  \A r \in FailureReturned :
            r # EmptyDict =>
                /\ DOMAIN r.failure_categories = Categories
                /\ \A c \in Categories :
                      r.failure_categories[c]
                          = Cardinality({i \in msgs : HighestPriority(items[i].description) = c})
                /\ SumValues(r.failure_categories, Categories) = Cardinality(msgs)
                /\ \A i \in msgs :
                      items[i].description \in {D_ConnectionRefused, D_ConnectionTimeout}
                          => r.failure_categories["Infrastructure"] >= 1

\* 'Connection timeout' has keywords of two categories and counts as Infrastructure
C9_Witness ==
    LET items == InputItems
    IN  \E r \in FailureReturned :
            /\ Len(items) = 1
            /\ items[1].description = D_ConnectionTimeout
            /\ r.failure_categories["Infrastructure"] = 1
            /\ r.failure_categories["Timeout"] = 0

\* the launch_id of every item of the input
RECURSIVE LaunchIdsFrom(_, _)
LaunchIdsFrom(data, l) ==
    IF l > Len(data) THEN <<>>
    ELSE (IF data[l].items = NotAList THEN <<>>
          ELSE [i \in DOMAIN data[l].items |-> data[l].launch_id])
         \o LaunchIdsFrom(data, l + 1)

\* C10: every FAILED item is placed in exactly one failure_patterns group; an
\* item whose description matches no known pattern and no fallback token, an
\* empty description included, is grouped under 'Unknown Error'; so the group
\* sizes sum to the number of FAILED items, and no other item is in a group.
C10_EveryFailedItemGrouped ==
    LET items == InputItems
        launch_of == LaunchIdsFrom(test_items_data, 1)
    IN  \A r \in FailureReturned :
            r # EmptyDict =>
                /\ SumSeq([g \in DOMAIN r.failure_patterns |->
                              Len(r.failure_patterns[g].failures)])
                       = Cardinality(FailedAt(items))
                /\ \A i \in FailedAt(items) :
                      /\ \E g \in DOMAIN r.failure_patterns :
                            \E k \in DOMAIN r.failure_patterns[g].failures :
                                /\ r.failure_patterns[g].failures[k].test_name = items[i].name
                                /\ r.failure_patterns[g].failures[k].description
                                      = items[i].description
                      /\ (items[i].description \in {<<>>, D_Boom} =>
                            \E g \in DOMAIN r.failure_patterns :
                                /\ r.failure_patterns[g].signature = UnknownErrorSig
                                /\ \E k \in DOMAIN r.failure_patterns[g].failures :
                                      r.failure_patterns[g].failures[k].test_name
                                          = items[i].name)
                /\ \A g \in DOMAIN r.failure_patterns :
                      \A k \in DOMAIN r.failure_patterns[g].failures :
                          \E i \in FailedAt(items) :
                              r.failure_patterns[g].failures[k].test_name = items[i].name

\* C11: the six category counts of a non-empty failure analysis sum to the
\* number of FAILED items of the input, whatever signature each item received,
\* and all six category keys are present.
C11_CategoriesCountEveryFailure ==
    LET items == InputItems
    IN  \A r \in FailureReturned :
            r # EmptyDict =>
                /\ DOMAIN r.failure_categories = Categories
                /\ SumValues(r.failure_categories, Categories)
                       = Cardinality(FailedAt(items))

----------------------------------------------------------------------------
(* Claims about calculate_test_duration_analytics, stated on the input items *)

DurationReturned == {e[2] : e \in returned["calculate_test_duration_analytics"]}

\* the positions of the items with a duration above 0; an absent duration is none
PositiveAt(items) ==
    {i \in DOMAIN items : items[i].duration # Absent /\ items[i].duration > 0}

\* the k-th smallest of the durations (in ms) at the positions used
KthSmallest(items, used, k) ==
    CHOOSE v \in {items[i].duration : i \in used} :
        /\ Cardinality({i \in used : items[i].duration < v}) < k
        /\ Cardinality({i \in used : items[i].duration <= v}) >= k

\* C12: the analytics use exactly the items with duration > 0: the result is
\* the empty mapping when there is none; otherwise total_tests_with_duration is
\* their count, avg, min, max and median are those of their durations in
\* seconds, min > 0, min <= avg <= max, and duration_std is 0 with fewer than
\* 2 samples.
C12_PositiveDurationsOnly ==
    LET items == InputItems
        used == PositiveAt(items)
        n == Cardinality(used)
        ms == [i \in DOMAIN items |-> IF i \in used THEN items[i].duration ELSE 0]
    IN  \A r \in DurationReturned :
            IF used = {} THEN r = EmptyDict
            ELSE /\ r # EmptyDict
                 /\ r.total_tests_with_duration = n
                 /\ r.avg_test_duration = RNorm(SumSeq(ms), 1000 * n)
                 /\ r.min_test_duration = RNorm(KthSmallest(items, used, 1), 1000)
                 /\ r.max_test_duration = RNorm(KthSmallest(items, used, n), 1000)
                 /\ r.median_test_duration
                       = IF n % 2 = 1
                         THEN RNorm(KthSmallest(items, used, (n + 1) \div 2), 1000)
                         ELSE RNorm(KthSmallest(items, used, n \div 2)
                                    + KthSmallest(items, used, n \div 2 + 1), 2000)
                 /\ RLt(RZero, r.min_test_duration)
                 /\ RLe(r.min_test_duration, r.avg_test_duration)
                 /\ RLe(r.avg_test_duration, r.max_test_duration)
                 /\ (n < 2 => r.duration_std = RZero)

\* durations 1000, 3000, 0 ms give avg 2 s over 2 items
C12_Witness ==
    LET items == InputItems
    IN  \E r \in DurationReturned :
            /\ [i \in DOMAIN items |-> items[i].duration] = <<1000, 3000, 0>>
            /\ r.avg_test_duration = RInt(2)
            /\ r.total_tests_with_duration = 2

----------------------------------------------------------------------------
(* Claims about generate_historical_comparison, stated on the launch list *)

HistoricalReturned == returned["generate_historical_comparison"]

\* the positions of the launches that carry a start time
TimedAt(launches) ==
    {i \in DOMAIN launches : launches[i].startTime \notin {Null, Absent}}

\* the launches started at or after now - days_back, and those started before
RecentAt(launches, now, days_back) ==
    {i \in TimedAt(launches) : launches[i].startTime >= now - days_back}

HistoricalAt(launches, now, days_back) ==
    {i \in TimedAt(launches) : launches[i].startTime < now - days_back}

\* the sum of the total field over the launches at the positions in at
TotalOver(launches, at) ==
    SumSeq([i \in DOMAIN launches |-> IF i \in at THEN launches[i].total ELSE 0])

\* C13: generate_historical_comparison returns the empty mapping, not an error,
\* whenever the recent or the historical partition is empty; the partitions
\* are disjoint, every launch with a start time is in exactly one of them and
\* a launch without start time is in neither, so that a reported
\* total_tests_recent and total_tests_historical are the totals of the launches
\* started at or after, and before, now - days_back.
C13_EmptyPartitionEmptyResult ==
    \A e \in HistoricalReturned :
        LET now == e[1][1]
            days_back == e[1][2]
            recent == RecentAt(launches_data, now, days_back)
            historical == HistoricalAt(launches_data, now, days_back)
            recent_data == RecentData(launches_data, now - days_back)
            historical_data == HistoricalData(launches_data, now - days_back)
        IN  /\ (recent = {} \/ historical = {}) => e[2] = EmptyDict
            /\ "raised" \notin DOMAIN e[2]
            /\ recent_data = SelectSeq(launches_data,
                                 LAMBDA l : l \in {launches_data[i] : i \in recent})
            /\ historical_data = SelectSeq(launches_data,
                                     LAMBDA l : l \in {launches_data[i] : i \in historical})
            /\ Len(recent_data) + Len(historical_data) = Cardinality(TimedAt(launches_data))
            /\ \A i \in DOMAIN launches_data :
                  i \notin TimedAt(launches_data) =>
                      /\ launches_data[i] \notin Range(recent_data)
                      /\ launches_data[i] \notin Range(historical_data)
            /\ "total_tests_recent" \in DOMAIN e[2] =>
                  /\ e[2].total_tests_recent = RInt(TotalOver(launches_data, recent))
                  /\ e[2].total_tests_historical
                        = RInt(TotalOver(launches_data, historical))

\* every launch is inside the recent window, one of them started exactly at
\* the cutoff, the start_time column exists, and the comparison is empty
C13_Witness ==
    \E e \in HistoricalReturned :
        /\ start_time_col
        /\ Len(launches_data) = 2
        /\ \E i \in DOMAIN launches_data : launches_data[i].startTime = e[1][1] - e[1][2]
        /\ RecentAt(launches_data, e[1][1], e[1][2]) = DOMAIN launches_data
        /\ e[2] = EmptyDict

----------------------------------------------------------------------------
(* Claims about _calculate_quality_score, stated on its arguments *)

QualityReturned == returned["_calculate_quality_score"]

\* overall_pass_rate and pass_rate_std as the score reads them: 0 when absent
PassRateIn(a) ==
    IF a.exec_metrics = EmptyDict THEN RZero ELSE a.exec_metrics.overall_pass_rate

StdIn(a) ==
    IF a.exec_metrics = EmptyDict THEN RZero ELSE a.exec_metrics.pass_rate_std

\* C14: the quality score lies in [0, 100] and does not increase when the
\* flaky-test count, the unique-failure-pattern count or pass_rate_std is raised
\* with the other inputs held fixed; with empty execution metrics it is 0.
C14_ScoreBoundedMonotone ==
    /\ \A e \in QualityReturned :
          /\ RLe(RZero, e[2])
          /\ RLe(e[2], RInt(100))
          /\ e[1].exec_metrics = EmptyDict => e[2] = RZero
    /\ \A e1 \in QualityReturned : \A e2 \in QualityReturned :
          (/\ PassRateIn(e1[1]) = PassRateIn(e2[1])
           /\ e1[1].flaky_count <= e2[1].flaky_count
           /\ e1[1].unique_failures <= e2[1].unique_failures
           /\ RLe(StdIn(e1[1]), StdIn(e2[1])))
              => RLe(e2[2], e1[2])

\* one more flaky test than before, and a strictly lower score
C14_Witness ==
    \E e1 \in QualityReturned : \E e2 \in QualityReturned :
        /\ e2[1].flaky_count = e1[1].flaky_count + 1
        /\ e2[1].unique_failures = e1[1].unique_failures
        /\ e2[1].exec_metrics = e1[1].exec_metrics
        /\ RLt(e2[2], e1[2])

----------------------------------------------------------------------------
(* Claims about degenerate and malformed input *)

\* the results an operation has returned
ResultsOf(op) == {e[2] : e \in returned[op]}

\* the result is an exception
Raised(r) == "raised" \in DOMAIN r

NoDecisiveOutcome(launches) ==
    \A i \in DOMAIN launches : launches[i].passed + launches[i].failed = 0

NoStartTime(launches) ==
    \A i \in DOMAIN launches : launches[i].startTime \in {Null, Absent}

NoDuration(items) ==
    \A i \in DOMAIN items : items[i].duration \in {0, Absent}

\* C15: on degenerate but well-formed input no operation raises, and the
\* report is empty or zero-valued: execution metrics {} for no launches and
\* pass rates 0 without decisive outcome, flaky list [], failure analysis {}
\* and duration analytics {} for no test items, duration analytics {} for
\* items without duration, historical comparison {} for no launches or no
\* start times, and quality score 0 for no launches.
C15_DegenerateInputNoError ==
    LET items == InputItems
    IN  /\ \A r \in ResultsOf("calculate_test_execution_metrics") :
              /\ ~Raised(r)
              /\ launches_data = <<>> <=> r = EmptyDict
              /\ (r # EmptyDict /\ NoDecisiveOutcome(launches_data)) =>
                    /\ r.overall_pass_rate = RZero
                    /\ r.avg_pass_rate = RZero
                    /\ r.pass_rate_std = RZero
        /\ \A r \in ResultsOf("detect_flaky_tests") :
              test_items_data = <<>> => r = <<>>
        /\ \A r \in ResultsOf("analyze_failure_patterns") :
              /\ ~Raised(r)
              /\ test_items_data = <<>> => r = EmptyDict
        /\ \A r \in ResultsOf("calculate_test_duration_analytics") :
              /\ ~Raised(r)
              /\ (test_items_data = <<>> \/ NoDuration(items)) => r = EmptyDict
        /\ \A r \in ResultsOf("generate_historical_comparison") :
              /\ ~Raised(r)
              /\ (launches_data = <<>> \/ NoStartTime(launches_data)) => r = EmptyDict
        /\ \A r \in ResultsOf("generate_executive_summary") :
              /\ ~Raised(r)
              /\ launches_data = <<>> =>
                    /\ r.overview.quality_score = RZero
                    /\ r.overview.total_launches = 0
                    /\ r.overview.total_tests = 0
                    /\ r.overview.overall_pass_rate = RZero
                    /\ r.trends = EmptyDict
              /\ test_items_data = <<>> =>
                    /\ r.test_stability.flaky_tests_detected = 0
                    /\ r.failure_insights.unique_failure_patterns = 0
                    /\ r.failure_insights.critical_issues = <<>>
                    /\ r.performance = EmptyDict
              /\ NoDuration(items) => r.performance = EmptyDict

\* every operation has returned on launches without start time and without
\* decisive outcome and on items without duration
C15_Witness ==
    /\ launches_data # <<>>
    /\ NoStartTime(launches_data)
    /\ NoDecisiveOutcome(launches_data)
    /\ InputItems # <<>>
    /\ NoDuration(InputItems)
    /\ \A op \in { "calculate_test_execution_metrics", "detect_flaky_tests",
                   "analyze_failure_patterns", "calculate_test_duration_analytics",
                   "generate_historical_comparison", "generate_executive_summary" } :
          returned[op] # {}

\* a count field of a launch record, 0 when the record lacks it
CountOr0(l, f) == IF l[f] = Absent THEN 0 ELSE l[f]

\* C16: records that lack fields never make a report raise: a launch record
\* lacking total, passed, failed or skipped counts as 0 there, and an item
\* lacking name, status, description or duration (or carrying null) counts as
\* empty or zero, so every operation returns a result.
C16_MalformedRecordsDefaulted ==
    /\ \A op \in Ops \ {"detect_flaky_tests"} : \A r \in ResultsOf(op) : ~Raised(r)
    /\ \A r \in ResultsOf("calculate_test_execution_metrics") :
          r # EmptyDict =>
              /\ r.total_tests_executed
                    = SumSeq([i \in DOMAIN launches_data |-> CountOr0(launches_data[i], "total")])
              /\ r.total_passed
                    = SumSeq([i \in DOMAIN launches_data |-> CountOr0(launches_data[i], "passed")])
              /\ r.total_failed
                    = SumSeq([i \in DOMAIN launches_data |-> CountOr0(launches_data[i], "failed")])
              /\ r.total_skipped
                    = SumSeq([i \in DOMAIN launches_data |-> CountOr0(launches_data[i], "skipped")])
    /\ \A r \in ResultsOf("calculate_test_duration_analytics") :
          r # EmptyDict =>
              r.total_tests_with_duration
                  = Cardinality({i \in DOMAIN InputItems :
                                    InputItems[i].duration \notin {Null, Absent}
                                    /\ InputItems[i].duration > 0})

----------------------------------------------------------------------------
(* Claims about the instance state *)

LaunchFields == {"startTime", "total", "passed", "failed", "skipped"}

\* C17: no operation changes its inputs: the launch list given to the
\* constructor (every record and every field; no start_time field is added to
\* a record) and the mapping of launch id to test items stay as they were.
C17_InputsNotMutated ==
    /\ [](\A i \in DOMAIN launches_data : DOMAIN launches_data[i] = LaunchFields)
    /\ [][launches_data' = launches_data /\ test_items_data' = test_items_data]_vars

\* every operation has returned, the table has its start_time column, and the
\* records carry the fields they were built with
C17_Witness ==
    /\ start_time_col
    /\ launches_data # <<>>
    /\ test_items_data # <<>>
    /\ \A i \in DOMAIN launches_data : DOMAIN launches_data[i] = LaunchFields
    /\ \A op \in { "calculate_test_execution_metrics", "detect_flaky_tests",
                   "analyze_failure_patterns", "calculate_test_duration_analytics",
                   "generate_historical_comparison", "generate_executive_summary" } :
          returned[op] # {}

\* the table of an instance has the start_time column exactly when the
\* instance itself has run an operation that adds it
OwnColumn(col, ret) ==
    col <=> /\ launches_data # <<>>
            /\ HasStartTimeKey(launches_data)
            /\ \/ ret["calculate_test_execution_metrics"] # {}
               \/ ret["generate_executive_summary"] # {}

\* what the operations of an instance return when it runs alone on the inputs:
\* one result each, and for the historical comparison the one before and the
\* one after the instance has added the column
ReturnsAsAlone(col, ret) ==
    LET key == launches_data # <<>> /\ HasStartTimeKey(launches_data)
    IN  /\ \A e \in ret["calculate_test_execution_metrics"] :
              e[2] = calculate_test_execution_metrics(launches_data, key)
        /\ \A e \in ret["detect_flaky_tests"] :
              e[2] = detect_flaky_tests(test_items_data, e[1][1])
        /\ \A e \in ret["analyze_failure_patterns"] :
              e[2] = analyze_failure_patterns(test_items_data)
        /\ \A e \in ret["calculate_test_duration_analytics"] :
              e[2] = calculate_test_duration_analytics(test_items_data)
        /\ \A e \in ret["generate_executive_summary"] :
              e[2] = generate_executive_summary(launches_data, test_items_data, key, e[1][1])
        /\ \A e \in ret["generate_historical_comparison"] :
              \/ e[2] = EmptyDict
              \/ /\ col
                 /\ e[2] = generate_historical_comparison(launches_data, TRUE,
                                                          e[1][1], e[1][2])

\* C18: two instances built from the same inputs, their operations interleaved
\* in any order, each return what they return when run alone: the only state an
\* operation writes, the start_time column, is that of its own instance.
C18_InstancesIndependent ==
    /\ OwnColumn(start_time_col, returned)
    /\ OwnColumn(peer.start_time_col, peer.returned)
    /\ ReturnsAsAlone(start_time_col, returned)
    /\ ReturnsAsAlone(peer.start_time_col, peer.returned)

\* the peer has added its column and returned a comparison, while the other
\* instance, without column, has returned the empty comparison only
C18_Witness ==
    /\ peer.start_time_col
    /\ \E e \in peer.returned["generate_historical_comparison"] : e[2] # EmptyDict
    /\ ~start_time_col
    /\ returned["generate_historical_comparison"] # {}
    /\ \A e \in returned["generate_historical_comparison"] : e[2] = EmptyDict
    /\ returned["detect_flaky_tests"] # {}


----------------------------------------------------------------------------
(* Claims about the formula of the quality score *)

\* the three deductions as the formula states them, from the arguments
FlakyDeduction(a) == RMin(RInt(2 * a.flaky_count), RInt(20))

PatternDeduction(a) ==
    LET over == IF a.unique_failures > 5 THEN a.unique_failures - 5 ELSE 0
    IN  RMin(RNorm(3 * over, 2), RInt(15))

StabilityDeduction(a) ==
    LET over == RMax(RZero, RSub(StdIn(a), RInt(10)))
    IN  RMin(RMul(over, <<1, 2>>), RInt(10))

Deductions(a) == RAdd(RAdd(FlakyDeduction(a), PatternDeduction(a)), StabilityDeduction(a))

\* clamp to [0, 100], then one decimal
ClampedRounded(x) == RRound(RMax(RZero, RMin(RInt(100), x)), 1)

\* the formula, the caps and the deductions that are zero
ScoreByFormula ==
    \A e \in QualityReturned :
        /\ e[2] = ClampedRounded(RSub(PassRateIn(e[1]), Deductions(e[1])))
        /\ RLe(FlakyDeduction(e[1]), RInt(20))
        /\ RLe(PatternDeduction(e[1]), RInt(15))
        /\ RLe(StabilityDeduction(e[1]), RInt(10))
        /\ e[1].unique_failures <= 5 => PatternDeduction(e[1]) = RZero
        /\ RLe(StdIn(e[1]), RInt(10)) => StabilityDeduction(e[1]) = RZero
        /\ RLe(Deductions(e[1]), RInt(45))

\* C19 as stated: the score follows the formula, rounded to one decimal, and
\* score >= overall_pass_rate - 45 whenever overall_pass_rate >= 45.
C19_ScoreAtLeastPassRateLess45 ==
    /\ ScoreByFormula
    /\ \A e \in QualityReturned :
          RLe(RInt(45), PassRateIn(e[1]))
             => RLe(RSub(PassRateIn(e[1]), RInt(45)), e[2])

\* C19, amended: the quality score equals clamp_[0,100](overall_pass_rate
\* - min(2*flaky_count, 20) - min(1.5*max(0, unique_patterns - 5), 15)
\* - min(0.5*max(0, pass_rate_std - 10), 10)) rounded to one decimal; each
\* deduction is capped (20, 15, 10), a pattern count <= 5 and a pass_rate_std
\* <= 10 deduct nothing, the deductions sum to at most 45, and whenever
\* overall_pass_rate >= 45 the score is at least overall_pass_rate - 45 rounded
\* to one decimal, which may lie up to 0.05 below overall_pass_rate - 45.
C19_ScoreFormulaRounded ==
    /\ ScoreByFormula
    /\ \A e \in QualityReturned :
          RLe(RInt(45), PassRateIn(e[1]))
             => /\ RLe(RRound(RSub(PassRateIn(e[1]), RInt(45)), 1), e[2])
                /\ RLe(RSub(PassRateIn(e[1]), <<901, 20>>), e[2])

\* all three deductions at their caps, and the rounding takes the score below
\* overall_pass_rate - 45
C19_Witness ==
    \E e \in QualityReturned :
        /\ FlakyDeduction(e[1]) = RInt(20)
        /\ PatternDeduction(e[1]) = RInt(15)
        /\ StabilityDeduction(e[1]) = RInt(10)
        /\ RLt(RInt(45), PassRateIn(e[1]))
        /\ RLt(e[2], RSub(PassRateIn(e[1]), RInt(45)))


----------------------------------------------------------------------------
(* Claims about _identify_critical_issues, stated on its argument *)

CriticalReturned == returned["_identify_critical_issues"]

\* the count of a category and of the unique patterns in a failure analysis,
\* 0 when absent
CountIn(fa, c) ==
    IF fa = EmptyDict THEN 0 ELSE fa.failure_categories[c]

TotalIn(fa) ==
    IF fa = EmptyDict THEN 0 ELSE SumValues(fa.failure_categories, Categories)

UniqueIn(fa) == IF fa = EmptyDict THEN 0 ELSE fa.total_unique_failures

IssueNames(r) == [i \in DOMAIN r |-> r[i].issue]

\* the issues due for a failure analysis, in the order of the checks
IssuesDue(fa) ==
    (IF 100 * CountIn(fa, "Infrastructure") > 30 * TotalIn(fa)
     THEN <<"High infrastructure failure rate">> ELSE <<>>)
    \o (IF 100 * CountIn(fa, "Timeout") > 20 * TotalIn(fa)
        THEN <<"Frequent timeout issues">> ELSE <<>>)
    \o (IF UniqueIn(fa) > 15 THEN <<"High failure pattern diversity">> ELSE <<>>)

\* C20: no categorized failure gives the empty list; otherwise the infrastructure
\* issue is emitted iff Infrastructure is strictly more than 30% of the
\* categorized failures, the timeout issue iff Timeout is strictly more than
\* 20%, the diversity issue iff there are more than 15 unique patterns, in this
\* order and each independently of the others; exactly 30%, 20% and 15 emit
\* nothing, and 0 to 3 issues result.
C20_CriticalIssuesByThreshold ==
    \A e \in CriticalReturned :
        LET fa == e[1].failure_analysis
            names == Range(IssueNames(e[2]))
        IN  /\ TotalIn(fa) = 0 => e[2] = <<>>
            /\ TotalIn(fa) > 0 => IssueNames(e[2]) = IssuesDue(fa)
            /\ 100 * CountIn(fa, "Infrastructure") = 30 * TotalIn(fa)
                  => "High infrastructure failure rate" \notin names
            /\ 100 * CountIn(fa, "Timeout") = 20 * TotalIn(fa)
                  => "Frequent timeout issues" \notin names
            /\ UniqueIn(fa) = 15 => "High failure pattern diversity" \notin names
            /\ Len(e[2]) \in 0..3

\* exactly 30% infrastructure, 20% timeout and 15 patterns: nothing emitted
C20_Witness ==
    \E e \in CriticalReturned :
        LET fa == e[1].failure_analysis
        IN  /\ TotalIn(fa) > 0
            /\ 100 * CountIn(fa, "Infrastructure") = 30 * TotalIn(fa)
            /\ 100 * CountIn(fa, "Timeout") = 20 * TotalIn(fa)
            /\ UniqueIn(fa) = 15
            /\ e[2] = <<>>


----------------------------------------------------------------------------
(* Claims about the changes of the historical comparison *)

\* the pass rate a launch contributes to a partition's average: 0 with
\* passed + failed = 0
ContributedRate(l) ==
    IF l.passed + l.failed = 0 THEN RZero ELSE RNorm(100 * l.passed, l.passed + l.failed)

\* the value of metric m over the launches at the positions in at (not empty)
MetricOver(m, launches, at) ==
    CASE m = "avg_pass_rate" ->
            RDiv(RSumSeq([i \in DOMAIN launches |->
                            IF i \in at THEN ContributedRate(launches[i]) ELSE RZero]),
                 RInt(Cardinality(at)))
      [] m = "avg_tests_per_launch" ->
            RNorm(TotalOver(launches, at), Cardinality(at))
      [] OTHER -> RInt(TotalOver(launches, at))

\* C21: in a non-empty historical comparison, for each metric m of avg_pass_rate,
\* avg_tests_per_launch and total_tests, m_change is emitted iff the historical
\* value of m is non-zero and equals 100*(recent - historical)/historical, and
\* m_recent and m_historical are emitted exactly with it; avg_pass_rate averages
\* over all launches of the partition, one with passed + failed = 0 counting 0.
C21_ChangeIffHistoricalNonZero ==
    \A e \in HistoricalReturned :
        LET recent == RecentAt(launches_data, e[1][1], e[1][2])
            historical == HistoricalAt(launches_data, e[1][1], e[1][2])
        IN  e[2] # EmptyDict =>
              \A m \in {"avg_pass_rate", "avg_tests_per_launch", "total_tests"} :
                LET r == MetricOver(m, launches_data, recent)
                    h == MetricOver(m, launches_data, historical)
                IN  /\ (m \o "_change") \in DOMAIN e[2] <=> h # RZero
                    /\ (m \o "_recent") \in DOMAIN e[2] <=> h # RZero
                    /\ (m \o "_historical") \in DOMAIN e[2] <=> h # RZero
                    /\ h # RZero =>
                          /\ e[2][m \o "_recent"] = r
                          /\ e[2][m \o "_historical"] = h
                          /\ RMul(e[2][m \o "_change"], h) = RMul(RInt(100), RSub(r, h))

\* a comparison that omits the three avg_pass_rate entries because the
\* historical pass rate is 0, reports the total_tests entries, and whose
\* historical partition holds a launch without decisive outcome
C21_Witness ==
    \E e \in HistoricalReturned :
        LET historical == HistoricalAt(launches_data, e[1][1], e[1][2])
        IN  /\ e[2] # EmptyDict
            /\ "avg_pass_rate_change" \notin DOMAIN e[2]
            /\ "total_tests_change" \in DOMAIN e[2]
            /\ \E i \in historical :
                  launches_data[i].passed + launches_data[i].failed = 0


----------------------------------------------------------------------------
(* Claims about signature extraction, on the analysis of one FAILED item *)

\* the known patterns, by position in the list, that match the description
KnownMatching(d) == {k \in DOMAIN Patterns : PatternMatches(Patterns[k], Lower(d))}

D_AssertionThenTimeout == <<"A", "s", "s", "e", "r", "t", "i", "o", "n", "E", "r", "r", "o", "r", " ", "T", "i", "m", "e", "o", "u", "t", "E", "x", "c", "e", "p", "t", "i", "o", "n">>

D_DatabaseError == <<"d", "a", "t", "a", "b", "a", "s", "e", " ", "E", "r", "r", "o", "r">>

D_Http500 == <<"H", "T", "T", "P", " ", "5", "0", "0">>

D_ErrorWord == <<"E", "r", "r", "o", "r">>

\* C22: the signature of a description is that of the earliest known pattern of
\* the fixed list that matches it, case-insensitively, whatever else matches and
\* wherever in the text; the Error/Exception/Failed/Timeout token is used only
\* when no known pattern matches and 'Unknown Error' only when there is no such
\* token either; a description has one signature.
C22_FirstKnownPatternWins ==
    LET items == InputItems
    IN  \A r \in FailureReturned :
            (r # EmptyDict /\ items[1].description # <<>>) =>
                LET d == items[1].description
                    known == KnownMatching(d)
                    sig == r.failure_patterns[1].signature
                IN  /\ Len(r.failure_patterns) = 1
                    /\ known # {} =>
                          /\ sig.kind = "pattern"
                          /\ \E k \in known : /\ sig.name = Patterns[k].name
                                              /\ \A j \in known : k <= j
                    /\ sig.kind = "token" =>
                          /\ known = {}
                          /\ ErrorWordStarts(d) # {}
                          /\ Contains(d, sig.text)
                    /\ sig = UnknownErrorSig <=> (known = {} /\ ErrorWordStarts(d) = {})
                    /\ d = D_AssertionThenTimeout => sig = PatternSig("TimeoutException")
                    /\ d = D_DatabaseError => sig = PatternSig("Database.*Error")
                    /\ d = D_Http500 => sig = PatternSig("HTTP \\d{3}")
                    /\ d = D_ErrorWord => sig = TokenSig(D_ErrorWord)
                    /\ d = D_Boom => sig = UnknownErrorSig

\* a description in which AssertionError comes first and TimeoutException
\* second has the signature TimeoutException, the earlier of the list
C22_Witness ==
    /\ InputItems[1].description = D_AssertionThenTimeout
    /\ KnownMatching(D_AssertionThenTimeout) = {1, 3}
    /\ \E r \in FailureReturned :
          /\ r # EmptyDict
          /\ r.failure_patterns[1].signature = PatternSig("TimeoutException")


----------------------------------------------------------------------------
(* Claims about the ranking of the failure patterns *)

\* the size of the group of signature sig in the analysis r, 0 without group
GroupSize(r, sig) ==
    SumSeq([g \in DOMAIN r.failure_patterns |->
              IF r.failure_patterns[g].signature = sig
              THEN Len(r.failure_patterns[g].failures) ELSE 0])

\* C23: in every non-empty failure analysis total_unique_failures is the number
\* of keys of failure_patterns, every group is non-empty, top_failure_patterns
\* has min(10, total_unique_failures) entries in non-increasing order of count,
\* each count is the size of that signature's group, and no signature left out
\* has a larger count than one included.
C23_TopPatternsRanked ==
    \A r \in FailureReturned :
        r # EmptyDict =>
            LET groups == r.failure_patterns
                top == r.top_failure_patterns
                sigs == {groups[g].signature : g \in DOMAIN groups}
                listed == {top[i].pattern : i \in DOMAIN top}
            IN  /\ r.total_unique_failures = Cardinality(sigs)
                /\ Cardinality(sigs) = Len(groups)
                /\ \A g \in DOMAIN groups : Len(groups[g].failures) >= 1
                /\ Len(top) = IF r.total_unique_failures < 10
                              THEN r.total_unique_failures ELSE 10
                /\ Cardinality(listed) = Len(top)
                /\ listed \subseteq sigs
                /\ \A i \in DOMAIN top : top[i].count = GroupSize(r, top[i].pattern)
                /\ \A i \in DOMAIN top : \A j \in DOMAIN top :
                      i < j => top[i].count >= top[j].count
                /\ \A out \in sigs \ listed : \A i \in DOMAIN top :
                      GroupSize(r, out) <= top[i].count

\* eleven signatures, the tenth found with one failure and the last with two:
\* the last is ranked, the tenth is left out
C23_Witness ==
    \E r \in FailureReturned :
        /\ r # EmptyDict
        /\ r.total_unique_failures = 11
        /\ Len(r.top_failure_patterns) = 10
        /\ GroupSize(r, TokenSig(SignatureWord(10))) = 1
        /\ GroupSize(r, TokenSig(SignatureWord(11))) = 2
        /\ \E i \in DOMAIN r.top_failure_patterns :
              r.top_failure_patterns[i].pattern = TokenSig(SignatureWord(11))
        /\ \A i \in DOMAIN r.top_failure_patterns :
              r.top_failure_patterns[i].pattern # TokenSig(SignatureWord(10))


----------------------------------------------------------------------------
(* Claims about slowest_tests, stated on the input items *)

\* the mean, in seconds, of the positive durations of the items carrying name
MeanDurationOf(items, name) ==
    LET mine == {i \in PositiveAt(items) : items[i].name = name}
    IN  RNorm(SumSeq([i \in DOMAIN items |-> IF i \in mine THEN items[i].duration ELSE 0]),
              1000 * Cardinality(mine))

\* C24: slowest_tests has one entry per distinct test name among the items with
\* duration > 0, at most 10 entries, each avg_duration the mean of that name's
\* positive durations in seconds, in non-increasing order of avg_duration; every
\* avg_duration lies between min_test_duration and max_test_duration, and the
\* first entry names a test whose mean duration is maximal.
C24_SlowestTestsRanked ==
    LET items == InputItems
        names == {items[i].name : i \in PositiveAt(items)}
    IN  \A r \in DurationReturned :
            r # EmptyDict =>
                LET slow == r.slowest_tests
                    listed == {slow[i].test_name : i \in DOMAIN slow}
                IN  /\ Len(slow) = IF Cardinality(names) < 10 THEN Cardinality(names) ELSE 10
                    /\ Cardinality(listed) = Len(slow)
                    /\ listed \subseteq names
                    /\ \A i \in DOMAIN slow :
                          /\ slow[i].avg_duration = MeanDurationOf(items, slow[i].test_name)
                          /\ RLe(r.min_test_duration, slow[i].avg_duration)
                          /\ RLe(slow[i].avg_duration, r.max_test_duration)
                    /\ \A i \in DOMAIN slow : \A j \in DOMAIN slow :
                          i < j => RLe(slow[j].avg_duration, slow[i].avg_duration)
                    /\ \A n \in names : RLe(MeanDurationOf(items, n), slow[1].avg_duration)

\* eleven names, the last one with runs of 1 s and 4 s: it is ranked first
\* with 2.5 s, and the tenth name is left out of the ten entries
C24_Witness ==
    LET items == InputItems
    IN  \E r \in DurationReturned :
            /\ r # EmptyDict
            /\ Cardinality({items[i].name : i \in PositiveAt(items)}) = 11
            /\ Len(r.slowest_tests) = 10
            /\ r.slowest_tests[1] = [test_name |-> LowerCase[11], avg_duration |-> <<5, 2>>]
            /\ \A i \in DOMAIN r.slowest_tests : r.slowest_tests[i].test_name # LowerCase[10]


----------------------------------------------------------------------------
(* Claims about generate_executive_summary and the reports of its instance *)

SummaryReturned == returned["generate_executive_summary"]

\* the summary agrees with the execution metrics, the flaky tests, the failure
\* analysis and the duration analytics the instance has returned
SummaryMatchesReports ==
    \A s \in SummaryReturned :
        /\ \A m \in MetricsReturned :
              /\ s[2].overview.total_launches = Get(m, "total_launches", 0)
              /\ s[2].overview.total_tests = Get(m, "total_tests_executed", 0)
        /\ \A f \in FlakyReturned :
              f[1] = <<3>> =>
                  /\ s[2].test_stability.flaky_tests_detected = Len(f[2])
                  /\ s[2].test_stability.top_flaky_tests
                        = SubSeq(f[2], 1, IF Len(f[2]) < 5 THEN Len(f[2]) ELSE 5)
        /\ \A a \in FailureReturned :
              s[2].failure_insights.unique_failure_patterns
                  = Get(a, "total_unique_failures", 0)
        /\ \A d \in DurationReturned : s[2].performance = d

\* C25: generate_executive_summary is consistent with the individual reports
\* computed on the same instance: total_launches and total_tests are those of the
\* execution metrics, flaky_tests_detected and top_flaky_tests the length and
\* the first min(5, length) records of detect_flaky_tests() with threshold 3,
\* unique_failure_patterns is total_unique_failures, performance is the duration
\* analytics and trends is the historical comparison.
C25_SummaryConsistentWithReports ==
    /\ SummaryMatchesReports
    /\ \A s \in SummaryReturned : \A h \in HistoricalReturned :
          h[1] = <<s[1][1], DefaultDaysBack>> => s[2].trends = h[2]


----------------------------------------------------------------------------
(* Claims about test_execution_trend, stated on the launch list *)

\* every launch has a start time, and no two have the same
DistinctTimes(launches) ==
    /\ TimedAt(launches) = DOMAIN launches
    /\ \A i \in DOMAIN launches : \A j \in DOMAIN launches :
          i # j => launches[i].startTime # launches[j].startTime

\* the index of launch i among the launches ordered by ascending start time
RankOf(launches, i) ==
    Cardinality({j \in DOMAIN launches : launches[j].startTime < launches[i].startTime})

\* the least-squares slope of total against that index
SlopeByRank(launches) ==
    LET n   == Len(launches)
        sx  == SumSeq([i \in DOMAIN launches |-> RankOf(launches, i)])
        sy  == SumSeq([i \in DOMAIN launches |-> launches[i].total])
        sxy == SumSeq([i \in DOMAIN launches |-> RankOf(launches, i) * launches[i].total])
        sxx == SumSeq([i \in DOMAIN launches |-> RankOf(launches, i) * RankOf(launches, i)])
    IN  RNorm(n * sxy - sx * sy, n * sxx - sx * sx)

\* C26: test_execution_trend is the least-squares slope of total against the
\* index of the launches in ascending order of start time: 0 with fewer than 2
\* launches, above 0 when the totals strictly increase with the start time,
\* below 0 when they strictly decrease, 0 when all totals are equal and, for
\* pairwise distinct start times, the same in whatever order the launches are
\* supplied.
C26_TrendIsSlopeByStartTime ==
    LET l == launches_data
    IN  \A r \in MetricsReturned :
            r # EmptyDict =>
                /\ Len(l) < 2 => r.test_execution_trend = RZero
                /\ (\A i \in DOMAIN l : l[i].total = l[1].total)
                      => r.test_execution_trend = RZero
                /\ (Len(l) >= 2 /\ DistinctTimes(l)) =>
                      /\ r.test_execution_trend = SlopeByRank(l)
                      /\ (\A i \in DOMAIN l : \A j \in DOMAIN l :
                              l[i].startTime < l[j].startTime => l[i].total < l[j].total)
                            => RLt(RZero, r.test_execution_trend)
                      /\ (\A i \in DOMAIN l : \A j \in DOMAIN l :
                              l[i].startTime < l[j].startTime => l[i].total > l[j].total)
                            => RLt(r.test_execution_trend, RZero)

\* three launches with totals 1, 2, 4 by start time, supplied latest first:
\* the trend is 3/2
C26_Witness ==
    /\ Len(launches_data) = 3
    /\ [i \in 1..3 |-> launches_data[i].startTime] = <<90, 20, 10>>
    /\ [i \in 1..3 |-> launches_data[i].total] = <<4, 2, 1>>
    /\ \E r \in MetricsReturned : r.test_execution_trend = <<3, 2>>


----------------------------------------------------------------------------
(* Claims about detect_flaky_tests under a permutation of the launches *)

\* a record without its flaky_score
Unscored(rec) == [rec EXCEPT !.flaky_score = RZero]

\* C27: the occurrences of a test name are ordered by the launch iteration order
\* of the mapping and, within a launch, by item order, and the flaky_score counts
\* the switches in that order; permuting the launches of the mapping may change
\* a flaky_score but never which names are reported nor their total_runs,
\* passed, failed, skipped and status_distribution.
C27_PermutationKeepsCounts ==
    /\ LET items == InputItems
       IN  \A e \in FlakyReturned : \A i \in DOMAIN e[2] :
               e[2][i].flaky_score[1] * (e[2][i].total_runs - 1)
                   = 100 * SwitchesOf(items, e[2][i].test_name) * e[2][i].flaky_score[2]
    /\ LET items == ItemsFrom(args.test_items_data, 1)
       IN  \A e \in peer.returned["detect_flaky_tests"] : \A i \in DOMAIN e[2] :
               e[2][i].flaky_score[1] * (e[2][i].total_runs - 1)
                   = 100 * SwitchesOf(items, e[2][i].test_name) * e[2][i].flaky_score[2]
    /\ \A e \in FlakyReturned : \A f \in peer.returned["detect_flaky_tests"] :
          e[1] = f[1] =>
              {Unscored(e[2][i]) : i \in DOMAIN e[2]} = {Unscored(f[2][i]) : i \in DOMAIN f[2]}

\* the same test reported by both instances with the same counts and another
\* flaky_score
C27_Witness ==
    \E e \in FlakyReturned : \E f \in peer.returned["detect_flaky_tests"] :
        /\ Len(e[2]) = 1
        /\ Len(f[2]) = 1
        /\ Unscored(e[2][1]) = Unscored(f[2][1])
        /\ e[2][1].flaky_score = RInt(100)
        /\ f[2][1].flaky_score = RInt(50)

-----------------------------------------------------------------------------
(* Chat history: src/utils/chat_history_manager.py *)

\* MAX_CHATS = 5
MAX_CHATS == 5

\* the length a chat name is cut to by save_chat_session
NameLimit == 30

MaxUuids == 6

MaxPrompts == 1

Chars(n, c) == [i \in 1..n |-> c]

NewChatName == <<"N", "e", "w", " ", "C", "h", "a", "t">>

DefaultSavedName == <<"C", "h", "a", "t">>

Ellipsis == <<".", ".", ".">>

\* what the user types: a short prompt and one longer than a chat name
Prompts == {<<"h", "i">>, Chars(NameLimit + 1, "a")}

\* what the assistant answers
Answers == {<<"o", "k">>}

\* st.session_state[f"new_name_{chat_id}"]
NewNames == {<<"x">>}

\* uuid.uuid4(): an id that was never handed out before
uuid4(issued) == Cardinality(issued) + 1

\* {"id": chat_id, "name": "New Chat", "messages": []}
NewSession(chat_id) == [id |-> chat_id, name |-> NewChatName, messages |-> <<>>]

SessionIds(sessions) == {sessions[i].id : i \in DOMAIN sessions}

\* the index of the first session with this id, 0 when there is none
FirstWithId(sessions, chat_id) ==
    IF chat_id \in SessionIds(sessions)
    THEN CHOOSE i \in DOMAIN sessions :
            /\ sessions[i].id = chat_id
            /\ \A j \in 1..(i - 1) : sessions[j].id # chat_id
    ELSE 0

\* the effect of appending a session with a fresh id and making it active
WithNewSession(w) ==
    [session_state |->
        [w.session_state EXCEPT
            !.chat_sessions = Append(@, NewSession(uuid4(w.uuids))),
            !.active_chat_id = uuid4(w.uuids)],
     uuids |-> w.uuids \cup {uuid4(w.uuids)}]

get_active_chat_NoFallback(w) ==
    LET s  == w.session_state
        w1 == IF s.active_chat_id = Null
              THEN IF s.chat_sessions = <<>>
                   THEN WithNewSession(w)
                   ELSE [w EXCEPT !.session_state.active_chat_id = s.chat_sessions[1].id]
              ELSE w
        s1 == w1.session_state
        at == FirstWithId(s1.chat_sessions, s1.active_chat_id)
    IN  IF at # 0
        THEN [session_state |-> s1, uuids |-> w1.uuids, at |-> at]
        ELSE IF s1.chat_sessions # <<>>
        THEN [session_state |-> s1, uuids |-> w1.uuids, at |-> 1]
        ELSE [session_state |-> WithNewSession(w1).session_state,
              uuids |-> WithNewSession(w1).uuids, at |-> 1]

\* get_active_chat(): [session_state, uuids] after the call, and the index
\* in chat_sessions of the session it returns
get_active_chat(w) ==
    LET s  == w.session_state
        w1 == IF s.active_chat_id = Null
              THEN IF s.chat_sessions = <<>>
                   THEN WithNewSession(w)
                   ELSE [w EXCEPT !.session_state.active_chat_id = s.chat_sessions[1].id]
              ELSE w
        s1 == w1.session_state
        at == FirstWithId(s1.chat_sessions, s1.active_chat_id)
    IN  IF at # 0
        THEN [session_state |-> s1, uuids |-> w1.uuids, at |-> at]
        ELSE IF s1.chat_sessions # <<>>
        THEN [session_state |-> [s1 EXCEPT !.active_chat_id = s1.chat_sessions[1].id],
              uuids |-> w1.uuids, at |-> 1]
        ELSE [session_state |-> WithNewSession(w1).session_state,
              uuids |-> WithNewSession(w1).uuids, at |-> 1]

Untracked(g) == [session_state |-> g.session_state, uuids |-> g.uuids]

\* next((msg["content"] for msg in messages if msg["role"] == "user"), "Chat")
FirstUserMessage(messages) ==
    IF \E i \in DOMAIN messages : messages[i].role = "user"
    THEN messages[CHOOSE i \in DOMAIN messages :
                    /\ messages[i].role = "user"
                    /\ \A j \in 1..(i - 1) : messages[j].role # "user"].content
    ELSE DefaultSavedName

\* first_user_message[:30] + "..." if len(first_user_message) > 30
\* else first_user_message
SavedName(messages) ==
    LET first_user_message == FirstUserMessage(messages)
    IN  IF Len(first_user_message) > NameLimit
        THEN SubSeq(first_user_message, 1, NameLimit) \o Ellipsis
        ELSE first_user_message

save_chat_session(w) ==
    LET g == get_active_chat(w)
        active_chat == g.session_state.chat_sessions[g.at]
    IN  IF active_chat.messages # <<>> /\ active_chat.name = NewChatName
        THEN [session_state |->
                [g.session_state EXCEPT
                    !.chat_sessions[g.at].name = SavedName(active_chat.messages)],
              uuids |-> g.uuids]
        ELSE Untracked(g)

new_chat_OneMore(w) ==
    IF Len(w.session_state.chat_sessions) > MAX_CHATS
    THEN w
    ELSE LET g  == get_active_chat(w)
             w1 == IF w.session_state.active_chat_id # Null
                   THEN IF g.session_state.chat_sessions[g.at].messages # <<>>
                        THEN save_chat_session(Untracked(g))
                        ELSE Untracked(g)
                   ELSE w
         IN  WithNewSession(w1)

\* new_chat(); st.rerun() ends the handler after the state is written
new_chat(w) ==
    IF Len(w.session_state.chat_sessions) >= MAX_CHATS
    THEN w
    ELSE LET g  == get_active_chat(w)
             w1 == IF w.session_state.active_chat_id # Null
                   THEN IF g.session_state.chat_sessions[g.at].messages # <<>>
                        THEN save_chat_session(Untracked(g))
                        ELSE Untracked(g)
                   ELSE w
         IN  WithNewSession(w1)

switch_chat(s, chat_id) ==
    [s EXCEPT !.active_chat_id = chat_id, !.renaming_chat_id = Null]

Without(sessions, chat_id) ==
    SelectSeq(sessions, LAMBDA chat : chat.id # chat_id)

delete_chat_KeepActive(s, chat_id) ==
    [s EXCEPT !.chat_sessions = Without(s.chat_sessions, chat_id)]

delete_chat(s, chat_id) ==
    LET chat_sessions == Without(s.chat_sessions, chat_id)
    IN  [s EXCEPT
            !.chat_sessions = chat_sessions,
            !.active_chat_id =
                IF s.active_chat_id = chat_id
                THEN IF chat_sessions # <<>> THEN chat_sessions[1].id ELSE Null
                ELSE @]

rename_chat(s, chat_id, new_name) ==
    LET at == FirstWithId(s.chat_sessions, chat_id)
    IN  [s EXCEPT
            !.chat_sessions = IF at = 0 THEN @ ELSE [@ EXCEPT ![at].name = new_name],
            !.renaming_chat_id = Null]

\* main.py: active_chat["messages"].append({"role": role, "content": content})
WithMessage(g, role, content) ==
    [g.session_state EXCEPT
        !.chat_sessions[g.at].messages = Append(@, [role |-> role, content |-> content])]

RECURSIVE CountPrompts(_)
CountPrompts(sessions) ==
    IF sessions = <<>> THEN 0
    ELSE Len(SelectSeq(Head(sessions).messages, LAMBDA msg : msg.role = "user"))
            + CountPrompts(Tail(sessions))

Now == [session_state |-> session_state, uuids |-> uuids]

Becomes(w, call) ==
    /\ w.uuids \subseteq 1..MaxUuids
    /\ session_state' = w.session_state
    /\ uuids' = w.uuids
    /\ called' = call
    /\ UNCHANGED engine_vars

\* error: whether st.sidebar.error() reported that the limit is reached
NewChat ==
    Becomes(new_chat(Now),
            [op |-> "new_chat",
             error |-> Len(session_state.chat_sessions) >= MAX_CHATS])

\* was: st.session_state.active_chat_id at the call; at: the index in
\* chat_sessions of the session that is returned
GetActiveChat ==
    Becomes(Untracked(get_active_chat(Now)),
            [op |-> "get_active_chat", was |-> session_state.active_chat_id,
             at |-> get_active_chat(Now).at])

\* main.py lines 1076-1077: if not st.session_state.chat_sessions: new_chat()
Bootstrap ==
    /\ session_state.chat_sessions = <<>>
    /\ Becomes(new_chat(Now), [op |-> "new_chat", error |-> FALSE])

SaveChatSession == Becomes(save_chat_session(Now), [op |-> "save_chat_session"])

SwitchChat(chat_id) ==
    Becomes([Now EXCEPT !.session_state = switch_chat(session_state, chat_id)],
            [op |-> "switch_chat"])

\* active: whether the chat that is deleted is the active one
DeleteChat(chat_id) ==
    Becomes([Now EXCEPT !.session_state = delete_chat(session_state, chat_id)],
            [op |-> "delete_chat", active |-> session_state.active_chat_id = chat_id])

RenameChat(chat_id) ==
    \E new_name \in NewNames :
        Becomes([Now EXCEPT !.session_state = rename_chat(session_state, chat_id, new_name)],
                [op |-> "rename_chat"])

\* main.py lines 81 and 120: the prompt goes to get_active_chat()'s session
UserPrompt ==
    /\ CountPrompts(session_state.chat_sessions) < MaxPrompts
    /\ \E prompt \in Prompts :
        LET g == get_active_chat(Now)
        IN  Becomes([session_state |-> WithMessage(g, "user", prompt), uuids |-> g.uuids],
                    [op |-> "prompt"])

\* main.py lines 81 and 1050-1051: the answer follows the prompt in the same
\* session, then save_chat_session()
AssistantResponse ==
    /\ \E answer \in Answers :
        LET g == get_active_chat(Now)
            messages == g.session_state.chat_sessions[g.at].messages
        IN  /\ messages # <<>>
            /\ messages[Len(messages)].role = "user"
            /\ Becomes(save_chat_session(
                           [session_state |-> WithMessage(g, "assistant", answer),
                            uuids |-> g.uuids]),
                       [op |-> "response"])

InitChat ==
    /\ NoInstance
    /\ args = EmptyDict

\* every function of the module, with any id that was ever handed out
NextChat ==
    \/ NewChat
    \/ Bootstrap
    \/ GetActiveChat
    \/ SaveChatSession
    \/ UserPrompt
    \/ AssistantResponse
    \/ \E chat_id \in uuids : SwitchChat(chat_id)
    \/ \E chat_id \in uuids : DeleteChat(chat_id)
    \/ \E chat_id \in uuids : RenameChat(chat_id)

SpecChat == InitChat /\ [][NextChat]_vars

\* render_chat_history_sidebar(): the buttons of the sidebar exist for the
\* sessions of the list only
NextSidebar ==
    \/ NewChat
    \/ \E chat_id \in SessionIds(session_state.chat_sessions) : SwitchChat(chat_id)
    \/ \E chat_id \in SessionIds(session_state.chat_sessions) : DeleteChat(chat_id)
    \/ \E chat_id \in SessionIds(session_state.chat_sessions) : RenameChat(chat_id)

SpecSidebar == InitChat /\ [][NextSidebar]_vars

-----------------------------------------------------------------------------
(* C28 *)

DistinctIds(sessions) ==
    \A i, j \in DOMAIN sessions : sessions[i].id = sessions[j].id => i = j

WithinLimit ==
    /\ Len(session_state.chat_sessions) <= MAX_CHATS
    /\ DistinctIds(session_state.chat_sessions)

RefusedAtLimit ==
    (called'.op = "new_chat" /\ Len(session_state.chat_sessions) = MAX_CHATS)
        => session_state' = session_state

\* C28: from an empty session list, whatever new_chat, get_active_chat,
\* switch_chat, rename_chat, delete_chat and save_chat_session are called,
\* there are never more than MAX_CHATS sessions and no two of them share an
\* id; new_chat called with MAX_CHATS sessions adds none and leaves the
\* sessions, their names and messages and the active chat id as they were.
C28_AtMostMaxChats == [][WithinLimit' /\ RefusedAtLimit]_vars

\* new_chat has just been refused: five sessions, the second one active and
\* renamed, one of them holding a message
C28_Witness ==
    /\ called.op = "new_chat"
    /\ called.error
    /\ Len(session_state.chat_sessions) = MAX_CHATS
    /\ session_state.active_chat_id = session_state.chat_sessions[2].id
    /\ \E i \in DOMAIN session_state.chat_sessions :
            session_state.chat_sessions[i].messages # <<>>
    /\ \E i \in DOMAIN session_state.chat_sessions :
            session_state.chat_sessions[i].name \in NewNames

-----------------------------------------------------------------------------
(* C29 *)

ActiveIsListed ==
    \/ session_state.active_chat_id = Null
    \/ session_state.active_chat_id \in SessionIds(session_state.chat_sessions)

FirstOrNone(sessions) == IF sessions = <<>> THEN Null ELSE sessions[1].id

DeleteMovesActive ==
    called'.op = "delete_chat" =>
        IF session_state.active_chat_id \in
                SessionIds(session_state.chat_sessions) \ SessionIds(session_state'.chat_sessions)
        THEN session_state'.active_chat_id = FirstOrNone(session_state'.chat_sessions)
        ELSE session_state'.active_chat_id = session_state.active_chat_id

\* C29: from no sessions and no active chat, whatever new_chat, delete_chat,
\* rename_chat and switch_chat are called with the ids of the sessions of the
\* list, active_chat_id is None or the id of a session of the list; deleting
\* the active chat makes the first remaining session active, or None when
\* none remains, and deleting another chat leaves active_chat_id as it was.
C29_ActiveChatIsListed == [][ActiveIsListed' /\ DeleteMovesActive]_vars

\* the active chat, which was not the first of three, has just been deleted
\* and the first of the two that remain is active
C29_Witness ==
    /\ called.op = "delete_chat"
    /\ called.active
    /\ Len(session_state.chat_sessions) = 2
    /\ session_state.chat_sessions[1].id = 1
    /\ uuids = {1, 2, 3}
    /\ session_state.active_chat_id = 1

-----------------------------------------------------------------------------
(* C30 *)

ActiveBefore ==
    /\ session_state.active_chat_id # Null
    /\ session_state.active_chat_id \in SessionIds(session_state.chat_sessions)

\* C30: in every state, with active_chat_id None or the id of a session that
\* is gone too, get_active_chat returns a session of the list whose id is
\* active_chat_id after the call; it creates a session only when the list is
\* empty, otherwise the list stays as it is and, when the active id was None
\* or of no session, the first session becomes the active one.
C30_GetActiveChatReturnsListed ==
    LET g      == get_active_chat(Now)
        before == session_state.chat_sessions
        after  == g.session_state.chat_sessions
    IN  /\ g.at \in DOMAIN after
        /\ after[g.at].id = g.session_state.active_chat_id
        /\ IF before = <<>>
           THEN /\ Len(after) = 1
                /\ after[1].id \notin uuids
           ELSE /\ after = before
                /\ g.uuids = uuids
                /\ ~ActiveBefore => g.session_state.active_chat_id = before[1].id

\* get_active_chat has just been called with the id of a deleted session
\* while three sessions were left, and returned the first of them
C30_Witness ==
    /\ called.op = "get_active_chat"
    /\ called.was # Null
    /\ called.was \notin SessionIds(session_state.chat_sessions)
    /\ called.at = 1
    /\ Len(session_state.chat_sessions) = 3
    /\ session_state.active_chat_id = session_state.chat_sessions[1].id

=============================================================================
